---------------------------- MODULE Spec2Model ----------------------------
(***************************************************************************)
(* Regional Policy Composite Scoring Engine (youth-settlement).            *)
(*                                                                         *)
(* Model of YouthPolicyEvaluationSystemV2 (evaluation-3/final_policy_eval- *)
(* 3.py) and of its variant YouthPolicyEvaluationSigmoidOnly               *)
(* (eval-3_result/final_policy_eval_sigmoid_only.py).                      *)
(*                                                                         *)
(* Numbers.  Python floats are modelled by exact rationals (records        *)
(* [n, d], d > 0, in lowest terms) wherever the code only adds, multiplies *)
(* and divides, and by fixed-point integers in thousandths ("milli")       *)
(* where it calls a transcendental library function (math.log, math.log2,  *)
(* math.exp, scipy.stats.norm.cdf).  Region names are sequences of         *)
(* syllables, one element per character of the Korean string.              *)
(***************************************************************************)
EXTENDS Integers, Sequences, FiniteSets, TLC

(***************************************************************************)
(* Bounds of the model.                                                    *)
(***************************************************************************)
\* largest number of regions in the policy catalog of one run
MaxRegions == 3
\* number of region_data shapes a catalog entry is drawn from
NumProfiles == 4
\* number of table sets (population, fiscal autonomy, budgets) explored
NumWorlds == 4
\* number of rows of a table handed directly to the normalizer / linker
MaxRows == 3

(***************************************************************************)
(* Integer helpers.                                                        *)
(***************************************************************************)
Abs(x) == IF x < 0 THEN -x ELSE x

Min2(a, b) == IF a <= b THEN a ELSE b

Max2(a, b) == IF a >= b THEN a ELSE b

RECURSIVE Gcd(_, _)
Gcd(a, b) == IF b = 0 THEN a ELSE Gcd(b, a % b)

RECURSIVE SeqSum(_)
SeqSum(s) == IF s = <<>> THEN 0 ELSE Head(s) + SeqSum(Tail(s))

RECURSIVE SeqMin(_)
SeqMin(s) == IF Len(s) = 1 THEN s[1] ELSE Min2(s[1], SeqMin(Tail(s)))

RECURSIVE SeqMax(_)
SeqMax(s) == IF Len(s) = 1 THEN s[1] ELSE Max2(s[1], SeqMax(Tail(s)))

RECURSIVE IsqrtFrom(_, _)
\* Newton's iteration downward from an estimate r >= sqrt(v), v > 0
IsqrtFrom(v, r) ==
    LET next == (r + v \div r) \div 2
    IN  IF next >= r THEN r ELSE IsqrtFrom(v, next)

\* floor of the square root of v >= 0
Isqrt(v) == IF v = 0 THEN 0 ELSE IsqrtFrom(v, v)

(***************************************************************************)
(* Exact rationals: the model of float arithmetic (+, *, /, comparisons).  *)
(***************************************************************************)
Frac(n, d) ==
    LET s == IF d < 0 THEN -1 ELSE 1
        g == Gcd(Abs(n), Abs(d))
    IN  IF n = 0 THEN [n |-> 0, d |-> 1]
        ELSE [n |-> (s * n) \div g, d |-> (s * d) \div g]

FZero == [n |-> 0, d |-> 1]

FOne == [n |-> 1, d |-> 1]

FInt(k) == [n |-> k, d |-> 1]

\* a/b * c/d, cross-reduced first so that intermediate products stay small
FMul(a, b) ==
    IF a.n = 0 \/ b.n = 0 THEN FZero
    ELSE LET g1 == Gcd(Abs(a.n), b.d)
             g2 == Gcd(Abs(b.n), a.d)
         IN  [n |-> (a.n \div g1) * (b.n \div g2),
              d |-> (a.d \div g2) * (b.d \div g1)]

\* a / b, b # 0
FDiv(a, b) ==
    FMul(a, IF b.n < 0 THEN [n |-> -b.d, d |-> -b.n] ELSE [n |-> b.d, d |-> b.n])

FAdd(a, b) ==
    LET g == Gcd(a.d, b.d)
        l == (a.d \div g) * b.d
    IN  Frac(a.n * (l \div a.d) + b.n * (l \div b.d), l)

FSub(a, b) == FAdd(a, [n |-> -b.n, d |-> b.d])

\* a < b, compared over the least common denominator
FLt(a, b) ==
    LET g == Gcd(a.d, b.d)
    IN  a.n * (b.d \div g) < b.n * (a.d \div g)

FLe(a, b) == a = b \/ FLt(a, b)

\* floor(1000 * f) for a rational f >= 0: a float seen in thousandths
FMilli(f) == (f.n * 1000) \div f.d

(***************************************************************************)
(* Library functions, in fixed point.                                      *)
(***************************************************************************)
RECURSIVE Halvings(_, _)
\* the k with 2^k <= n/d < 2^(k+1), for n >= d > 0
Halvings(n, d) == IF n >= 2 * d THEN 1 + Halvings(n, 2 * d) ELSE 0

RECURSIVE Pow2(_)
Pow2(k) == IF k = 0 THEN 1 ELSE 2 * Pow2(k - 1)

\* 10^4 * ln(n/d) for n >= d > 0 (10^4 ln 2 = 6931): ln x = k ln 2 + 2 atanh((y-1)/(y+1)), y = x/2^k
LnTenKUp(n, d) ==
    LET k  == Halvings(n, d)
        D  == d * Pow2(k)
        z  == ((n - D) * 10000) \div (n + D)
        z2 == (z * z) \div 10000
        z3 == (z2 * z) \div 10000
        z5 == (z3 * z2) \div 10000
        z7 == (z5 * z2) \div 10000
    IN  k * 6931 + 2 * (z + z3 \div 3 + z5 \div 5 + z7 \div 7)

\* math.log(x) in thousandths, x = f > 0 a rational
LnMilli(f) ==
    IF f.n >= f.d THEN LnTenKUp(f.n, f.d) \div 10
    ELSE -(LnTenKUp(f.d, f.n) \div 10)

\* math.log: ValueError for x <= 0, else the logarithm
MathLog(f) ==
    IF f.n <= 0 THEN [ok |-> FALSE, v |-> 0]
    ELSE [ok |-> TRUE, v |-> LnMilli(f)]

\* math.log2(x) scaled by 10^4, x = n/d > 0; exact for powers of two
Log2TenK(n, d) ==
    IF n >= d THEN (LnTenKUp(n, d) * 10000) \div 6931
    ELSE -((LnTenKUp(d, n) * 10000) \div 6931)

\* piecewise-linear reading of a table tab of values at 0, step, 2*step, ...
Interp(tab, step, x) ==
    LET i == x \div step
    IN  IF i + 1 >= Len(tab) THEN tab[Len(tab)]
        ELSE tab[i + 1] + ((tab[i + 2] - tab[i + 1]) * (x % step)) \div step

\* 1000 / (1 + e^(-t)) at t = -2.5, -2.0, ..., 2.5
LogisticTable == <<76, 119, 182, 269, 378, 500, 622, 731, 818, 881, 924>>

\* 1 / (1 + math.exp(-t)) in thousandths, t in thousandths, -2.5 <= t <= 2.5
Logistic(t) == Interp(LogisticTable, 500, t + 2500)

\* 1000 * Phi(z) at z = 0, 0.25, ..., 3.0
PhiTable == <<500, 599, 691, 773, 841, 894, 933, 960, 977, 988, 994, 997, 999>>

\* scipy.stats.norm.cdf(z) in thousandths, z in hundredths
NormCdf(zc) ==
    IF zc >= 0 THEN Interp(PhiTable, 25, zc)
    ELSE 1000 - Interp(PhiTable, 25, -zc)

(***************************************************************************)
(* Region names.  "gyeong","gi","do" is the three-character string of the  *)
(* province's name; " " is the blank between a province and a city.        *)
(***************************************************************************)
GANGWON   == <<"gang", "won", "do">>
GYEONGGI  == <<"gyeong", "gi", "do">>
GYEONGNAM == <<"gyeong", "sang", "nam", "do">>
GYEONGBUK == <<"gyeong", "sang", "buk", "do">>
GWANGJU   == <<"gwang", "ju", "gwang", "yeok", "si">>
DAEGU     == <<"dae", "gu", "gwang", "yeok", "si">>
DAEJEON   == <<"dae", "jeon", "gwang", "yeok", "si">>
BUSAN     == <<"bu", "san", "gwang", "yeok", "si">>
SEOUL     == <<"seo", "ul", "teuk", "byeol", "si">>
SEJONG    == <<"se", "jong", "teuk", "byeol", "ja", "chi", "si">>
ULSAN     == <<"ul", "san", "gwang", "yeok", "si">>
INCHEON   == <<"in", "cheon", "gwang", "yeok", "si">>
JEONNAM   == <<"jeon", "ra", "nam", "do">>
JEONBUK   == <<"jeon", "ra", "buk", "do">>
JEJU      == <<"je", "ju", "teuk", "byeol", "ja", "chi", "do">>
CHUNGNAM  == <<"chung", "cheong", "nam", "do">>
CHUNGBUK  == <<"chung", "cheong", "buk", "do">>

\* self.metropolitan_areas
metropolitan_areas ==
    {GANGWON, GYEONGGI, GYEONGNAM, GYEONGBUK, GWANGJU, DAEGU, DAEJEON, BUSAN,
     SEOUL, SEJONG, ULSAN, INCHEON, JEONNAM, JEONBUK, JEJU, CHUNGNAM, CHUNGBUK}

\* special_dual_role_regions
special_dual_role_regions == {JEJU, SEJONG}

\* municipal names of the catalogs explored
SUWON  == GYEONGGI \o <<" ", "su", "won", "si">>
GOYANG == <<"go", "yang", "si">>

\* the regions a catalog is drawn from, in file order
CatalogNames == <<SUWON, GYEONGGI, SEJONG, GOYANG>>

is_metropolitan_area(region_name) == region_name \in metropolitan_areas

\* the two values of the column "region type"
METRO_TYPE == "Metropolitan"

BASIC_TYPE == "Municipal"

\* policy_categories
policy_categories ==
    <<"job", "housing", "education", "welfare_culture", "participation_rights">>

(***************************************************************************)
(* JSON values of the policy catalog.                                      *)
(***************************************************************************)
Absent == [kind |-> "absent", v |-> 0, s |-> <<>>]

Num(x) == [kind |-> "num", v |-> x, s |-> <<>>]

Str(chars) == [kind |-> "str", v |-> 0, s |-> chars]

\* a project of a category's project list: a dict with or without a budget
Project(budget) == [isDict |-> TRUE, budget |-> budget]

\* a category's value: declared count, project list (or none), aggregate budget
Category(count, hasProjects, projects, total) ==
    [isDict |-> TRUE, count |-> count, hasProjects |-> hasProjects,
     projects |-> projects, total |-> total]

\* region_data shapes: [hasExec: an execution map is present, exec: the map]
Profiles ==
    << \* 1: two active categories, budgets per project (one unparsable)
       [hasExec |-> TRUE,
        exec |-> [c \in {"job", "education"} |->
                    IF c = "job"
                    THEN Category(Absent, TRUE,
                                  <<Project(Str(<<"n", "a">>)), Project(Num(1))>>, Absent)
                    ELSE Category(Absent, TRUE, <<Project(Str(<<"n", "a">>))>>, Absent)]],
       \* 2: one active category with a declared count; an unknown category
       [hasExec |-> TRUE,
        exec |-> [c \in {"job", "etc"} |->
                    IF c = "job"
                    THEN Category(Num(3), FALSE, <<>>, Str(<<"1", ".", "5", "e">>))
                    ELSE Category(Num(5), FALSE, <<>>, Num(4))]],
       \* 3: three active categories with equal counts
       [hasExec |-> TRUE,
        exec |-> [c \in {"job", "housing", "welfare_culture"} |->
                    IF c = "job"
                    THEN Category(Num(0), TRUE, <<Project(Num(0)), Project(Num(0))>>, Num(4))
                    ELSE IF c = "housing"
                    THEN Category(Absent, TRUE, <<Project(Num(3)), Project(Absent)>>, Num(100))
                    ELSE Category(Num(2), TRUE, <<Project(Str(<<"-">>))>>, Absent)]],
       \* 4: an empty execution map
       [hasExec |-> TRUE, exec |-> [c \in {} |-> Absent]],
       \* 5: no execution map: the loader skips the region
       [hasExec |-> FALSE, exec |-> [c \in {} |-> Absent]] >>

ProfileIds == 1..Min2(NumProfiles, Len(Profiles))

(***************************************************************************)
(* The four tables beside the catalog, as the loader finds them on disk.   *)
(* A table is a sequence of rows; a file that does not exist makes         *)
(* pd.read_csv raise.  Budgets are in millions of won, fiscal autonomy in  *)
(* percent, populations in persons.                                        *)
(***************************************************************************)
PopRow(name, youth, total) == [name |-> name, youth |-> youth, total |-> total]

FinRow(name, pct) == [name |-> name, pct |-> pct]

BudgetRow(name, total) == [name |-> name, total |-> total]

World(popFile, pop, finFile, fin, budgetFiles, metro, basic) ==
    [popFile |-> popFile, pop |-> pop, finFile |-> finFile, fin |-> fin,
     budgetFiles |-> budgetFiles, metro |-> metro, basic |-> basic]

Worlds ==
    << \* 1: every region has a row in every table
       World(TRUE, <<PopRow(SUWON, 10000, 200000), PopRow(GYEONGGI, 200000, 1000000),
                     PopRow(SEJONG, 50000, 250000), PopRow(GOYANG, 5000, 50000)>>,
             TRUE, <<FinRow(SUWON, 30), FinRow(GYEONGGI, 50), FinRow(SEJONG, 40),
                     FinRow(GOYANG, 20)>>,
             TRUE, <<BudgetRow(GYEONGGI, 1000), BudgetRow(SEJONG, 500)>>,
                   <<BudgetRow(SUWON, 100), BudgetRow(GOYANG, 50)>>),
       \* 2: the tables exist and know none of the regions
       World(TRUE, <<>>, TRUE, <<>>, TRUE, <<>>, <<>>),
       \* 3: zero populations, zero fiscal autonomy
       World(TRUE, <<PopRow(SUWON, 0, 200000), PopRow(GYEONGGI, 200000, 0),
                     PopRow(SEJONG, 50000, 250000), PopRow(GOYANG, 5000, 50000)>>,
             TRUE, <<FinRow(SUWON, 30), FinRow(SEJONG, 0), FinRow(GOYANG, 100)>>,
             TRUE, <<BudgetRow(GYEONGGI, 1000), BudgetRow(SEJONG, 500)>>,
                   <<BudgetRow(SUWON, 100), BudgetRow(GOYANG, 50)>>),
       \* 4: the population table is missing
       World(FALSE, <<>>, TRUE, <<>>, TRUE, <<>>, <<>>),
       \* 5: the fiscal-autonomy table is missing
       World(TRUE, <<>>, FALSE, <<>>, TRUE, <<>>, <<>>) >>

WorldIds == 1..Min2(NumWorlds, Len(Worlds))

\* the two scripts that hold the engine
Variants == {"v2", "sigmoid_only"}

VARIABLES
    variant,                  \* which script runs
    files,                    \* the inputs on disk: [catalog, world]
    policy_data,              \* self.policy_data, in insertion order
    youth_population_data,    \* self.youth_population_data
    finance_autonomy_data,    \* self.finance_autonomy_data
    metropolitan_budget_data, \* self.metropolitan_budget_data
    basic_budget_data,        \* self.basic_budget_data
    category_stats,           \* self._category_stats_df: [built, rows, builds]
    results,                  \* evaluate_all_regions: the rows so far
    idx,                      \* evaluate_all_regions: next key of policy_data
    df,                       \* the table of run_evaluation
    linked_df,                \* save_results: final_linked_df
    written,                  \* the output files written
    pc,                       \* position in run_evaluation
    error                     \* the exception that ended the run, or "none"

vars == <<variant, files, policy_data, youth_population_data,
          finance_autonomy_data, metropolitan_budget_data, basic_budget_data,
          category_stats, results, idx, df, linked_df, written, pc, error>>

(***************************************************************************)
(* Table lookups.                                                          *)
(***************************************************************************)
\* table[table[key column] == region_name]: the matching rows, in order
ExactMatch(table, region_name) == SelectSeq(table, LAMBDA r : r.name = region_name)

get_finance_autonomy(region_name) ==
    LET exact_match == ExactMatch(finance_autonomy_data, region_name)
    IN  IF Len(exact_match) > 0 THEN Frac(exact_match[1].pct, 100)
        ELSE Frac(25, 100)

\* in millions of won
get_total_budget(region_name) ==
    LET budget_data == IF is_metropolitan_area(region_name)
                       THEN metropolitan_budget_data ELSE basic_budget_data
        exact_match == ExactMatch(budget_data, region_name)
    IN  IF Len(exact_match) > 0 THEN exact_match[1].total
        ELSE IF is_metropolitan_area(region_name) THEN 10000000 ELSE 1000000

get_youth_population(region_name) ==
    LET exact_match == ExactMatch(youth_population_data, region_name)
    IN  IF Len(exact_match) > 0 THEN exact_match[1].youth
        ELSE IF is_metropolitan_area(region_name) THEN 200000 ELSE 10000

get_total_population(region_name) ==
    LET exact_match == ExactMatch(youth_population_data, region_name)
    IN  IF Len(exact_match) > 0 THEN exact_match[1].total
        ELSE IF is_metropolitan_area(region_name) THEN 1000000 ELSE 50000

\* policy_data[region_name], for a key of the dict
RegionData(region_name) ==
    (CHOOSE e \in {policy_data[i] : i \in 1..Len(policy_data)} :
        e.name = region_name).data

InPolicyData(region_name) ==
    \E i \in 1..Len(policy_data) : policy_data[i].name = region_name

(***************************************************************************)
(* calculate_youth_policy_budget                                           *)
(***************************************************************************)
DigitChars == <<"0", "1", "2", "3", "4", "5", "6", "7", "8", "9">>

IsDigit(c) == \E i \in 1..10 : DigitChars[i] = c

DigitVal(c) == (CHOOSE i \in 1..10 : DigitChars[i] = c) - 1

RECURSIVE DigitsValue(_, _)
DigitsValue(chars, acc) ==
    IF chars = <<>> THEN acc
    ELSE DigitsValue(Tail(chars), 10 * acc + DigitVal(Head(chars)))

\* float("".join(filter(str.isdigit, s.replace(".", "")))): ValueError when
\* no digit is left
ParseDigits(chars) ==
    LET digits == SelectSeq(SelectSeq(chars, LAMBDA c : c # "."), IsDigit)
    IN  IF digits = <<>> THEN [ok |-> FALSE, v |-> 0]
        ELSE [ok |-> TRUE, v |-> DigitsValue(digits, 0)]

\* the try block around one budget value: its number, or 0 when it raises
BudgetNumber(value) ==
    IF value.kind = "num" THEN value.v
    ELSE IF ParseDigits(value.s).ok THEN ParseDigits(value.s).v ELSE 0

RECURSIVE ProjectsBudgetStopping(_)
\* faulty variant: the first budget that fails to parse ends the project loop
ProjectsBudgetStopping(projects) ==
    IF projects = <<>> THEN 0
    ELSE LET project == Head(projects)
         IN  IF project.isDict /\ project.budget.kind = "str"
                /\ ~ParseDigits(project.budget.s).ok
             THEN 0
             ELSE (IF project.isDict /\ project.budget.kind # "absent"
                   THEN BudgetNumber(project.budget) ELSE 0)
                  + ProjectsBudgetStopping(Tail(projects))

RECURSIVE ProjectsBudget(_)
\* step 1: the sum over the projects that carry a budget
ProjectsBudget(projects) ==
    IF projects = <<>> THEN 0
    ELSE LET project == Head(projects)
         IN  (IF project.isDict /\ project.budget.kind # "absent"
              THEN BudgetNumber(project.budget) ELSE 0)
             + ProjectsBudget(Tail(projects))

CategoryBudget(category_data) ==
    LET step1 == IF category_data.hasProjects
                 THEN ProjectsBudget(category_data.projects) ELSE 0
    IN  IF step1 = 0 /\ category_data.total.kind # "absent"
        THEN BudgetNumber(category_data.total)
        ELSE step1

RECURSIVE SumCategoryBudgets(_, _)
SumCategoryBudgets(policy_execution, keys) ==
    IF keys = {} THEN 0
    ELSE LET category == CHOOSE c \in keys : TRUE
         IN  (IF policy_execution[category].isDict
              THEN CategoryBudget(policy_execution[category]) ELSE 0)
             + SumCategoryBudgets(policy_execution, keys \ {category})

\* in millions of won
calculate_youth_policy_budget(region_name) ==
    IF ~InPolicyData(region_name) THEN 0
    ELSE LET policy_execution == RegionData(region_name).exec
         IN  SumCategoryBudgets(policy_execution, DOMAIN policy_execution)

(***************************************************************************)
(* calculate_administrative_intensity                                      *)
(*                                                                         *)
(* The code multiplies both budgets by 1000000 first; the model keeps the  *)
(* budgets in millions and multiplies the per-person quotients instead     *)
(* (the same numbers, without the large intermediate products).            *)
(***************************************************************************)
WON_PER_MILLION == 1000000

\* faulty variant: the budget is left in millions of won
BudgetPerPersonInMillions(budget, population) ==
    IF population > 0 THEN Frac(budget, population) ELSE FZero

\* budget / population in won per person, 0 for a population of 0; the
\* budget is in millions of won
BudgetPerPerson(budget, population) ==
    IF population > 0
    THEN FMul(Frac(budget, population), FInt(WON_PER_MILLION))
    ELSE FZero

ConcentrationIndex(budget_per_youth, budget_per_capita) ==
    IF budget_per_capita.n > 0
    THEN FDiv(budget_per_youth, budget_per_capita) ELSE FZero

\* faulty variant: the "+ 1" inside the logarithm is left out
LogArgumentNoPlusOne(concentration_index, finance_autonomy) ==
    IF finance_autonomy.n > 0
    THEN FDiv(concentration_index, finance_autonomy)
    ELSE concentration_index

\* faulty variant: the concentration index is multiplied by the autonomy
LogArgumentTimesAutonomy(concentration_index, finance_autonomy) ==
    IF finance_autonomy.n > 0
    THEN FAdd(FMul(concentration_index, finance_autonomy), FOne)
    ELSE FAdd(concentration_index, FOne)

\* the argument of math.log: concentration_index / finance_autonomy + 1
LogArgument(concentration_index, finance_autonomy) ==
    IF finance_autonomy.n > 0
    THEN FAdd(FDiv(concentration_index, finance_autonomy), FOne)
    ELSE FAdd(concentration_index, FOne)

calculate_administrative_intensity(region_name) ==
    LET total_budget == get_total_budget(region_name)
        youth_policy_budget == calculate_youth_policy_budget(region_name)
        youth_population == get_youth_population(region_name)
        total_population == get_total_population(region_name)
        finance_autonomy == get_finance_autonomy(region_name)
        budget_per_youth == BudgetPerPerson(youth_policy_budget, youth_population)
        budget_per_capita == BudgetPerPerson(total_budget, total_population)
        concentration_index == ConcentrationIndex(budget_per_youth, budget_per_capita)
        log == MathLog(LogArgument(concentration_index, finance_autonomy))
    IN  [ok |-> log.ok,
         administrative_intensity |-> log.v,
         concentration_index |-> concentration_index,
         budget_per_youth |-> budget_per_youth,
         budget_per_capita |-> budget_per_capita,
         finance_autonomy |-> finance_autonomy,
         total_budget |-> total_budget,
         youth_policy_budget |-> youth_policy_budget,
         youth_population |-> youth_population,
         total_population |-> total_population]

(***************************************************************************)
(* calculate_strategic_intensity                                           *)
(***************************************************************************)
SIGMOID_K == 5

Categories == {policy_categories[i] : i \in 1..Len(policy_categories)}

\* the project count of one category of one region (the cache's inner loop)
CategoryCount(policy_execution, category) ==
    IF category \notin DOMAIN policy_execution THEN 0
    ELSE LET category_data == policy_execution[category]
         IN  IF ~category_data.isDict THEN 0
             ELSE IF category_data.count.kind = "num" /\ category_data.count.v > 0
             THEN category_data.count.v
             ELSE IF category_data.hasProjects THEN Len(category_data.projects)
             ELSE 0

\* one row of _category_stats_df
StatsRow(entry) ==
    [region_name |-> entry.name,
     is_metro |-> is_metropolitan_area(entry.name),
     counts |-> [c \in Categories |-> CategoryCount(entry.data.exec, c)]]

\* the table built on the first call: one row per key of policy_data
BuildCategoryStats == [i \in 1..Len(policy_data) |-> StatsRow(policy_data[i])]

\* the all-zero result of a region the cache does not know
ZeroStrategic ==
    [found |-> FALSE, error |-> "none", strategic_intensity |-> 0, entropy |-> 0,
     entropy_score |-> FZero,
     scores |-> [c \in Categories |-> 0],
     counts |-> [c \in Categories |-> 0]]

\* no result: a table built from no region has no column "region_name", and
\* selecting that column raises KeyError, which the handler of IndexError
\* does not catch
RaisedStrategic == [ZeroStrategic EXCEPT !.error = "KeyError"]

\* method "z_score": norm.cdf((x - mean) / std), 0.5 when std is 0 or NaN and
\* the group is not empty, 0.0 for an empty group; in thousandths
ZScoreStanding(current_value, distribution) ==
    LET n == Len(distribution)
        S == SeqSum(distribution)
        Q == SeqSum([i \in 1..n |-> distribution[i] * distribution[i]])
        \* n(n-1) var = nQ - S^2 ; n (x - mean) = nx - S
        nnvar == n * Q - S * S
        dev == n * current_value - S
        zsq == Frac(dev * dev * (n - 1), n * nnvar)
        zc == Isqrt((zsq.n * 10000) \div zsq.d)
    IN  IF n >= 2 /\ nnvar > 0
        THEN NormCdf(IF dev < 0 THEN -zc ELSE zc)
        ELSE IF n > 0 THEN 500
        ELSE 0

\* method "percentile": searchsorted(sorted, x, side="right") / len, 0.0 for an
\* empty group; in thousandths
PercentileStanding(current_value, distribution) ==
    LET n == Len(distribution)
        k == Len(SelectSeq(distribution, LAMBDA v : v <= current_value))
    IN  IF n > 0 THEN (k * 1000) \div n ELSE 0

\* raw_score of one category
RawScore(current_value, distribution) ==
    IF variant = "v2" THEN ZScoreStanding(current_value, distribution)
    ELSE PercentileStanding(current_value, distribution)

\* scaling "sigmoid": 1 / (1 + exp(-K (raw - 0.5)))
ScaledScore(raw_score) == Logistic(SIGMOID_K * (raw_score - 500))

\* faulty variant: the entropy is taken with the natural logarithm
EntropyNats(policy_counts) ==
    LET total_policies == SeqSum([i \in 1..5 |-> policy_counts[policy_categories[i]]])
        term(c) == IF c > 0 THEN c * LnTenKUp(total_policies, c) ELSE 0
    IN  IF total_policies > 0
        THEN SeqSum([i \in 1..5 |-> term(policy_counts[policy_categories[i]])])
                \div total_policies
        ELSE 0

\* Shannon entropy (base 2) of the non-zero counts, scaled by 10^4:
\* sum over c > 0 of -(c/T) log2(c/T) = (sum of c log2(T/c)) / T
Entropy(policy_counts) ==
    LET total_policies == SeqSum([i \in 1..5 |-> policy_counts[policy_categories[i]]])
        term(c) == IF c > 0 THEN c * Log2TenK(total_policies, c) ELSE 0
    IN  IF total_policies > 0
        THEN SeqSum([i \in 1..5 |-> term(policy_counts[policy_categories[i]])])
                \div total_policies
        ELSE 0

ActiveCategories(policy_counts) == Cardinality({c \in Categories : policy_counts[c] > 0})

\* faulty variant: a region with fewer than two active categories counts as balanced
EntropyScoreDefaultOne(policy_counts) ==
    LET active_categories == ActiveCategories(policy_counts)
        max_entropy == Log2TenK(active_categories, 1)
    IN  IF active_categories > 1 /\ max_entropy > 0
        THEN Frac(Entropy(policy_counts), max_entropy)
        ELSE FOne

\* entropy / log2(active_categories), 0.0 with fewer than two active categories
EntropyScore(policy_counts) ==
    LET active_categories == ActiveCategories(policy_counts)
        max_entropy == Log2TenK(active_categories, 1)
    IN  IF active_categories > 1 /\ max_entropy > 0
        THEN Frac(Entropy(policy_counts), max_entropy)
        ELSE FZero

\* the tier whose regions are the peer group
PeerIsMetro(region_name, override_region_type) ==
    IF override_region_type = "metro" THEN TRUE
    ELSE IF override_region_type = "basic" THEN FALSE
    ELSE is_metropolitan_area(region_name)

\* the body of calculate_strategic_intensity after the cache is in place;
\* stats_df is the cache's table, override_region_type is "metro", "basic" or "none"
StrategicFrom(stats_df, region_name, override_region_type) ==
    LET own == SelectSeq(stats_df, LAMBDA r : r.region_name = region_name)
    IN  IF stats_df = <<>> THEN RaisedStrategic
        ELSE IF own = <<>> THEN ZeroStrategic
        ELSE
        LET current_region_data == own[1]
            is_metro == PeerIsMetro(region_name, override_region_type)
            group_df == SelectSeq(stats_df, LAMBDA r : r.is_metro = is_metro)
            distribution(c) == [i \in 1..Len(group_df) |-> group_df[i].counts[c]]
            scores == [c \in Categories |->
                         ScaledScore(RawScore(current_region_data.counts[c],
                                              distribution(c)))]
            category_total_score ==
                SeqSum([i \in 1..5 |-> scores[policy_categories[i]]])
            entropy_score == EntropyScore(current_region_data.counts)
        IN  [found |-> TRUE, error |-> "none",
             strategic_intensity |-> category_total_score + FMilli(entropy_score),
             entropy |-> Entropy(current_region_data.counts),
             entropy_score |-> entropy_score,
             scores |-> scores,
             counts |-> current_region_data.counts]

\* faulty variant: the table is computed again on every call
CacheRebuiltPerCall ==
    [built |-> TRUE, rows |-> BuildCategoryStats, builds |-> category_stats.builds + 1]

\* the cache after a call: built on the first call, kept afterwards; builds
\* counts the runs of the block under "if not hasattr(...)"
CacheAfterCall ==
    IF category_stats.built THEN category_stats
    ELSE [built |-> TRUE, rows |-> BuildCategoryStats,
          builds |-> category_stats.builds + 1]

calculate_strategic_intensity(region_name, override_region_type) ==
    StrategicFrom(CacheAfterCall.rows, region_name, override_region_type)

(***************************************************************************)
(* run_evaluation, step by step.                                           *)
(***************************************************************************)
\* the catalog files: the regions of CatalogNames picked by S, in file order,
\* each with the region_data chosen by prof
CatalogOf(S, prof) ==
    LET picked == SelectSeq([i \in 1..Len(CatalogNames) |-> i], LAMBDA i : i \in S)
    IN  [k \in 1..Len(picked) |->
            [name |-> CatalogNames[picked[k]], data |-> Profiles[prof[picked[k]]]]]

Catalogs ==
    UNION {{CatalogOf(S, prof) : prof \in [S -> ProfileIds]} :
           S \in {T \in SUBSET (1..Len(CatalogNames)) : Cardinality(T) <= MaxRegions}}

NoCache == [built |-> FALSE, rows |-> <<>>, builds |-> 0]

Init ==
    /\ variant \in Variants
    /\ files \in [catalog : Catalogs, world : {Worlds[w] : w \in WorldIds}]
    /\ policy_data = <<>>
    /\ youth_population_data = <<>>
    /\ finance_autonomy_data = <<>>
    /\ metropolitan_budget_data = <<>>
    /\ basic_budget_data = <<>>
    /\ category_stats = NoCache
    /\ results = <<>>
    /\ idx = 0
    /\ df = <<>>
    /\ linked_df = <<>>
    /\ written = {}
    /\ pc = "start"
    /\ error = "none"

\* _load_policy_data: the entries that are dicts with an execution map
LoadedPolicyData(catalog) == SelectSeq(catalog, LAMBDA e : e.data.hasExec)

\* load_all_data: the catalog, then the three table loads in order; the first
\* missing file raises out of run_evaluation
LoadAllData ==
    /\ pc = "start"
    /\ policy_data' = LoadedPolicyData(files.catalog)
    /\ youth_population_data' = IF files.world.popFile THEN files.world.pop ELSE <<>>
    /\ finance_autonomy_data' =
         IF files.world.popFile /\ files.world.finFile THEN files.world.fin ELSE <<>>
    /\ metropolitan_budget_data' =
         IF files.world.popFile /\ files.world.finFile /\ files.world.budgetFiles
         THEN files.world.metro ELSE <<>>
    /\ basic_budget_data' =
         IF files.world.popFile /\ files.world.finFile /\ files.world.budgetFiles
         THEN files.world.basic ELSE <<>>
    /\ IF files.world.popFile /\ files.world.finFile /\ files.world.budgetFiles
       THEN pc' = "loaded" /\ error' = "none"
       ELSE pc' = "failed" /\ error' = "FileNotFoundError"
    /\ UNCHANGED <<variant, files, category_stats, results, idx, df, linked_df, written>>

\* evaluate_all_regions up to its loop: the priming call builds the cache
EvaluateBegin ==
    /\ pc = "loaded"
    /\ results' = <<>>
    /\ category_stats' = IF policy_data # <<>> THEN CacheAfterCall ELSE category_stats
    /\ idx' = 1
    /\ pc' = "evaluating"
    /\ UNCHANGED <<variant, files, policy_data, youth_population_data,
                   finance_autonomy_data, metropolitan_budget_data,
                   basic_budget_data, df, linked_df, written, error>>

\* one row of results
ResultRow(region_name, region_type, admin_result, strategic_result) ==
    [name |-> region_name, type |-> region_type,
     admin |-> admin_result, strat |-> strategic_result]

\* faulty variant: both rows of a dual-role region are scored in the region's own tier
RegionRowsNoOverride(region_name) ==
    LET admin_result == calculate_administrative_intensity(region_name)
        strategic_result == calculate_strategic_intensity(region_name, "none")
    IN  IF region_name \in special_dual_role_regions
        THEN << ResultRow(region_name, METRO_TYPE, admin_result, strategic_result),
                ResultRow(region_name, BASIC_TYPE, admin_result, strategic_result) >>
        ELSE << ResultRow(region_name,
                          IF is_metropolitan_area(region_name)
                          THEN METRO_TYPE ELSE BASIC_TYPE,
                          admin_result, strategic_result) >>

\* the rows one iteration of the loop appends for region_name
RegionRows(region_name) ==
    LET admin_result == calculate_administrative_intensity(region_name)
    IN  IF region_name \in special_dual_role_regions
        THEN << ResultRow(region_name, METRO_TYPE, admin_result,
                          calculate_strategic_intensity(region_name, "metro")),
                ResultRow(region_name, BASIC_TYPE, admin_result,
                          calculate_strategic_intensity(region_name, "basic")) >>
        ELSE << ResultRow(region_name,
                          IF is_metropolitan_area(region_name)
                          THEN METRO_TYPE ELSE BASIC_TYPE,
                          admin_result,
                          calculate_strategic_intensity(region_name, "none")) >>

\* one iteration of the loop of evaluate_all_regions; math.log raising ends the run
EvaluateRegion ==
    /\ pc = "evaluating"
    /\ idx <= Len(policy_data)
    /\ LET region_name == policy_data[idx].name
       IN  IF calculate_administrative_intensity(region_name).ok
           THEN /\ results' = results \o RegionRows(region_name)
                /\ idx' = idx + 1
                /\ pc' = pc
                /\ error' = error
           ELSE /\ results' = results
                /\ idx' = idx
                /\ pc' = "failed"
                /\ error' = "ValueError"
    /\ category_stats' = CacheAfterCall
    /\ UNCHANGED <<variant, files, policy_data, youth_population_data,
                   finance_autonomy_data, metropolitan_budget_data,
                   basic_budget_data, df, linked_df, written>>

(***************************************************************************)
(* calculate_comprehensive_scores                                          *)
(***************************************************************************)
\* the normalized value every row takes when max = min
DegenerateNorm == IF variant = "v2" THEN FZero ELSE Frac(1, 2)

\* faulty variant: the minimum is not subtracted from the value
MinMaxNoShift(x, col_min, col_max) ==
    IF col_max > col_min THEN Frac(x, col_max - col_min)
    ELSE DegenerateNorm

\* faulty variant: the range is padded to keep the division from failing
MinMaxPadded(x, col_min, col_max) == Frac(x - col_min, col_max - col_min + 1)

\* min-max scaling of one value of a column with the given minimum and maximum
MinMax(x, col_min, col_max) ==
    IF col_max > col_min THEN Frac(x - col_min, col_max - col_min)
    ELSE DegenerateNorm

\* (a + b) / 2
Average(a, b) == FDiv(FAdd(a, b), FInt(2))

\* a row of df: the result row, its normalized intensities and composite score;
\* the three rank columns are 0 until add_rankings sets them
ScoredRow(r, admin_norm, strategic_norm) ==
    [name |-> r.name, type |-> r.type, admin |-> r.admin, strat |-> r.strat,
     admin_norm |-> admin_norm, strategic_norm |-> strategic_norm,
     composite |-> Average(admin_norm, strategic_norm),
     overall_rank |-> 0, metro_rank |-> 0, basic_rank |-> 0]

calculate_comprehensive_scores(rows) ==
    IF Len(rows) = 0 THEN <<>>
    ELSE LET admin_col == [i \in 1..Len(rows) |-> rows[i].admin.administrative_intensity]
             strategic_col == [i \in 1..Len(rows) |-> rows[i].strat.strategic_intensity]
             admin_min == SeqMin(admin_col)
             admin_max == SeqMax(admin_col)
             strategic_min == SeqMin(strategic_col)
             strategic_max == SeqMax(strategic_col)
         IN  [i \in 1..Len(rows) |->
                ScoredRow(rows[i],
                          MinMax(admin_col[i], admin_min, admin_max),
                          MinMax(strategic_col[i], strategic_min, strategic_max))]

\* faulty variant: normalization starts while the evaluation loop is running
CalculateComprehensiveScoresEarly ==
    /\ pc = "evaluating"
    /\ idx >= 1
    /\ df' = calculate_comprehensive_scores(results)
    /\ pc' = "scored"
    /\ UNCHANGED <<variant, files, policy_data, youth_population_data,
                   finance_autonomy_data, metropolitan_budget_data,
                   basic_budget_data, category_stats, results, idx, linked_df,
                   written, error>>

\* evaluate_all_regions returns after its last iteration and run_evaluation
\* hands the rows to calculate_comprehensive_scores
CalculateComprehensiveScores ==
    /\ pc = "evaluating"
    /\ idx > Len(policy_data)
    /\ df' = calculate_comprehensive_scores(results)
    /\ pc' = "scored"
    /\ UNCHANGED <<variant, files, policy_data, youth_population_data,
                   finance_autonomy_data, metropolitan_budget_data,
                   basic_budget_data, category_stats, results, idx, linked_df,
                   written, error>>

(***************************************************************************)
(* add_rankings                                                            *)
(***************************************************************************)
\* sort_values(key, ascending=False): pandas sorts with numpy's quicksort,
\* which is not stable, so rows of equal key may come out in any order.  An
\* order is a permutation p: the row at place i is rows[p[i]].
DescendingOrders(keys) ==
    {p \in Permutations(1..Len(keys)) :
        \A i \in 1..Len(keys) : \A j \in 1..Len(keys) :
            i < j => ~FLt(keys[p[i]], keys[p[j]])}

Reorder(rows, p) == [i \in 1..Len(rows) |-> rows[p[i]]]

OfType(rows, region_type) == SelectSeq(rows, LAMBDA r : r.type = region_type)

\* the rank that the merge loop leaves in a row named name: the place of the
\* row of that name in the sorted tier table, 0 when the tier has no such row
MergedRank(tier_sorted, name) ==
    IF \E i \in 1..Len(tier_sorted) : tier_sorted[i].name = name
    THEN CHOOSE i \in 1..Len(tier_sorted) :
            /\ tier_sorted[i].name = name
            /\ \A j \in (i + 1)..Len(tier_sorted) : tier_sorted[j].name # name
    ELSE 0

\* faulty variant: the tier ranks are the places in the overall order
RankedOverallAsTier(rows, p, pm, pb) ==
    LET sorted == Reorder(rows, p)
    IN  [i \in 1..Len(sorted) |->
            [sorted[i] EXCEPT
                !.overall_rank = i,
                !.metro_rank = IF sorted[i].type = METRO_TYPE THEN i ELSE 0,
                !.basic_rank = IF sorted[i].type = BASIC_TYPE THEN i ELSE 0]]

\* faulty variant: rows of equal composite score share a rank (rank(method="min"))
RankedSharing(rows, p, pm, pb) ==
    LET sorted == Reorder(rows, p)
        metro_df == Reorder(OfType(sorted, METRO_TYPE), pm)
        basic_df == Reorder(OfType(sorted, BASIC_TYPE), pb)
    IN  [i \in 1..Len(sorted) |->
            [sorted[i] EXCEPT
                !.overall_rank =
                    1 + Cardinality({j \in 1..Len(sorted) :
                                       FLt(sorted[i].composite, sorted[j].composite)}),
                !.metro_rank = MergedRank(metro_df, sorted[i].name),
                !.basic_rank = MergedRank(basic_df, sorted[i].name)]]

\* the table add_rankings returns for the orders p (overall), pm and pb (tiers)
Ranked(rows, p, pm, pb) ==
    LET sorted == Reorder(rows, p)
        metro_df == Reorder(OfType(sorted, METRO_TYPE), pm)
        basic_df == Reorder(OfType(sorted, BASIC_TYPE), pb)
    IN  [i \in 1..Len(sorted) |->
            [sorted[i] EXCEPT !.overall_rank = i,
                              !.metro_rank = MergedRank(metro_df, sorted[i].name),
                              !.basic_rank = MergedRank(basic_df, sorted[i].name)]]

Composites(rows) == [i \in 1..Len(rows) |-> rows[i].composite]

\* add_rankings; a table without rows has no column to sort by (KeyError)
AddRankings ==
    /\ pc = "scored"
    /\ IF Len(df) = 0
       THEN /\ pc' = "failed"
            /\ error' = "KeyError"
            /\ df' = df
       ELSE /\ \E p \in DescendingOrders(Composites(df)) :
               LET sorted == Reorder(df, p)
               IN  \E pm \in DescendingOrders(Composites(OfType(sorted, METRO_TYPE))) :
                   \E pb \in DescendingOrders(Composites(OfType(sorted, BASIC_TYPE))) :
                       df' = Ranked(df, p, pm, pb)
            /\ pc' = "ranked"
            /\ error' = error
    /\ UNCHANGED <<variant, files, policy_data, youth_population_data,
                   finance_autonomy_data, metropolitan_budget_data,
                   basic_budget_data, category_stats, results, idx, linked_df,
                   written>>

(***************************************************************************)
(* save_results: the two tier files and the metro-municipal linker         *)
(***************************************************************************)
\* basic_weight, metro_weight
basic_weight == IF variant = "v2" THEN Frac(7, 10) ELSE Frac(5, 10)

metro_weight == IF variant = "v2" THEN Frac(3, 10) ELSE Frac(5, 10)

\* None
NoParent == <<>>

StartsWith(name, prefix) ==
    Len(name) >= Len(prefix) /\ SubSeq(name, 1, Len(prefix)) = prefix

EndsWith(name, suffix) ==
    Len(name) >= Len(suffix)
    /\ SubSeq(name, Len(name) - Len(suffix) + 1, Len(name)) = suffix

\* sub in name
Contains(name, sub) ==
    \E i \in 1..(Len(name) - Len(sub) + 1) : SubSeq(name, i, i + Len(sub) - 1) = sub

NAMDO == <<"nam", "do">>

BUKDO == <<"buk", "do">>

\* faulty variant: the two-character prefix alone decides
ParentCandidatePrefixOnly(basic_region_name, metro_name) ==
    StartsWith(basic_region_name, SubSeq(metro_name, 1, 2))

\* metro_name passes the tests of the loop body of get_metro_region
ParentCandidate(basic_region_name, metro_name) ==
    /\ StartsWith(basic_region_name, SubSeq(metro_name, 1, 2))
    /\ ~(EndsWith(metro_name, NAMDO) /\ Contains(basic_region_name, BUKDO))
    /\ ~(EndsWith(metro_name, BUKDO) /\ Contains(basic_region_name, NAMDO))

\* the values get_metro_region can return: the loop runs over a set of strings,
\* whose iteration order is not fixed, and returns the first name that passes
get_metro_region(basic_region_name) ==
    LET passing == {m \in metropolitan_areas : ParentCandidate(basic_region_name, m)}
    IN  IF passing = {} THEN {NoParent} ELSE passing

\* the parents the linker can record for a municipal row: dual-role regions
\* are overwritten with their own name
ParentsOf(basic_region_name) ==
    IF basic_region_name \in special_dual_role_regions THEN {basic_region_name}
    ELSE get_metro_region(basic_region_name)

RECURSIVE ParentColumns(_)
\* the columns basic_df["name"].apply(get_metro_region), with the dual-role
\* overwrite, can turn out to be: one parent per row
ParentColumns(rows) ==
    IF rows = <<>> THEN {<<>>}
    ELSE {<<parent>> \o rest : parent \in ParentsOf(Head(rows).name),
                               rest \in ParentColumns(Tail(rows))}

\* faulty variant: the parent score is the score of the first metropolitan row
MetroScoreOfFirst(metro_df, parent) ==
    IF metro_df # <<>> THEN metro_df[1].composite ELSE FZero

\* basic_df["parent"].map(metro_scores_map).fillna(0)
MetroScore(metro_df, parent) ==
    IF \E i \in 1..Len(metro_df) : metro_df[i].name = parent
    THEN (CHOOSE r \in {metro_df[i] : i \in 1..Len(metro_df)} : r.name = parent).composite
    ELSE FZero

\* faulty variant: the two weights are applied the other way round
LinkedScoreSwapped(composite, metro_composite) ==
    FAdd(FMul(composite, metro_weight), FMul(metro_composite, basic_weight))

LinkedScore(composite, metro_composite) ==
    FAdd(FMul(composite, basic_weight), FMul(metro_composite, metro_weight))

\* a row of basic_df with the linker's columns; final_rank is set after the sort
LinkedRow(r, metro_df, parent) ==
    [name |-> r.name, parent |-> parent,
     linked_score |-> LinkedScore(r.composite, MetroScore(metro_df, parent)),
     composite |-> r.composite,
     metro_composite |-> MetroScore(metro_df, parent),
     administrative_intensity |-> r.admin.administrative_intensity,
     strategic_intensity |-> r.strat.strategic_intensity,
     finance_autonomy |-> r.admin.finance_autonomy,
     budget_per_youth |-> r.admin.budget_per_youth,
     final_rank |-> 0]

\* faulty variant: rows whose parent has no score are dropped (dropna for fillna(0))
LinkedRowsDropping(basic_df, metro_df, parents) ==
    SelectSeq([i \in 1..Len(basic_df) |-> LinkedRow(basic_df[i], metro_df, parents[i])],
              LAMBDA r : \E i \in 1..Len(metro_df) : metro_df[i].name = r.parent)

\* basic_df with the linker's columns, parents being the column of parents
LinkedRows(basic_df, metro_df, parents) ==
    [i \in 1..Len(basic_df) |-> LinkedRow(basic_df[i], metro_df, parents[i])]

LinkedScores(rows) == [i \in 1..Len(rows) |-> rows[i].linked_score]

\* faulty variant: the final rank follows the municipal composite score
WithCompositeRank(rows) ==
    [i \in 1..Len(rows) |->
        [rows[i] EXCEPT !.final_rank =
            1 + Cardinality({j \in 1..Len(rows) :
                               \/ FLt(rows[i].composite, rows[j].composite)
                               \/ rows[i].composite = rows[j].composite /\ j < i})]]

\* final_linked_df["final rank"] = index + 1 after the sort
WithFinalRank(rows) == [i \in 1..Len(rows) |-> [rows[i] EXCEPT !.final_rank = i]]

METRO_CSV == "metro_results.csv"

BASIC_CSV == "basic_results.csv"

LINKED_CSV == "basic_linked_results.csv"

\* the files save_results writes for a table that is not empty
OutputFiles(metro_df, basic_df) ==
    (IF metro_df # <<>> THEN {METRO_CSV} ELSE {})
    \cup (IF basic_df # <<>> THEN {BASIC_CSV} ELSE {})
    \cup {LINKED_CSV}

SaveResults ==
    /\ pc = "ranked"
    /\ IF Len(df) = 0
       THEN /\ linked_df' = linked_df
            /\ written' = written
       ELSE LET metro_df == OfType(df, METRO_TYPE)
                basic_df == OfType(df, BASIC_TYPE)
            IN  /\ \E parents \in ParentColumns(basic_df) :
                     LET linked == LinkedRows(basic_df, metro_df, parents)
                     IN  \E p \in DescendingOrders(LinkedScores(linked)) :
                             linked_df' = WithFinalRank(Reorder(linked, p))
                /\ written' = written \cup OutputFiles(metro_df, basic_df)
    /\ pc' = "saved"
    /\ UNCHANGED <<variant, files, policy_data, youth_population_data,
                   finance_autonomy_data, metropolitan_budget_data,
                   basic_budget_data, category_stats, results, idx, df, error>>

\* print_summary, the last step of run_evaluation
PrintSummary ==
    /\ pc = "saved"
    /\ pc' = "done"
    /\ UNCHANGED <<variant, files, policy_data, youth_population_data,
                   finance_autonomy_data, metropolitan_budget_data,
                   basic_budget_data, category_stats, results, idx, df,
                   linked_df, written, error>>

Next ==
    \/ LoadAllData
    \/ EvaluateBegin
    \/ EvaluateRegion
    \/ CalculateComprehensiveScores
    \/ AddRankings
    \/ SaveResults
    \/ PrintSummary

Spec == Init /\ [][Next]_vars

(***************************************************************************)
(* The normalizer, the ranker and the linker called on a table of the      *)
(* caller's own: calculate_comprehensive_scores(results), add_rankings(df) *)
(* and save_results(df) take any table with the columns they read.         *)
(***************************************************************************)
\* the identity of row i of such a table
TableNames == <<GYEONGGI, SUWON, GOYANG, SEJONG>>

TableType(i) == IF i = 1 THEN METRO_TYPE ELSE BASIC_TYPE

\* intensities (thousandths) and composite scores the rows are drawn from
IntensityValues == {0, 250, 1000}

CompositeValues == {FZero, Frac(3, 5), Frac(4, 5), FOne}

\* the columns of a result row that the three functions do not read
BlankAdmin(x) ==
    [ok |-> TRUE, administrative_intensity |-> x, concentration_index |-> FZero,
     budget_per_youth |-> FZero, budget_per_capita |-> FZero,
     finance_autonomy |-> FZero, total_budget |-> 0, youth_policy_budget |-> 0,
     youth_population |-> 0, total_population |-> 0]

BlankStrategic(x) == [ZeroStrategic EXCEPT !.strategic_intensity = x]

TableSizes == 0..Min2(MaxRows, Len(TableNames))

\* results: the first k rows, any intensities
ResultTables ==
    UNION {{[i \in 1..k |-> ResultRow(TableNames[i], TableType(i),
                                      BlankAdmin(a[i]), BlankStrategic(t[i]))] :
              a \in [1..k -> IntensityValues], t \in [1..k -> IntensityValues]} :
           k \in TableSizes}

\* df after calculate_comprehensive_scores: the first k rows, any composite
ScoredTables ==
    UNION {{[i \in 1..k |->
                ScoredRow(ResultRow(TableNames[i], TableType(i),
                                    BlankAdmin(0), BlankStrategic(0)),
                          c[i], c[i])] :
              c \in [1..k -> CompositeValues]} :
           k \in TableSizes}

InitTable ==
    /\ variant \in Variants
    /\ files = [catalog |-> <<>>, world |-> Worlds[2]]
    /\ policy_data = <<>>
    /\ youth_population_data = <<>>
    /\ finance_autonomy_data = <<>>
    /\ metropolitan_budget_data = <<>>
    /\ basic_budget_data = <<>>
    /\ category_stats = NoCache
    /\ idx = 1
    /\ linked_df = <<>>
    /\ written = {}
    /\ error = "none"
    /\ \/ pc = "evaluating" /\ results \in ResultTables /\ df = <<>>
       \/ pc = "scored" /\ results = <<>> /\ df \in ScoredTables

NextTable ==
    \/ CalculateComprehensiveScores
    \/ AddRankings
    \/ SaveResults
    \/ PrintSummary

SpecTable == InitTable /\ [][NextTable]_vars

(***************************************************************************)
(* The loader and the evaluator on catalogs that declare their project     *)
(* counts (사업수) per category: the strategic calculator on chosen count    *)
(* vectors.                                                                *)
(***************************************************************************)
NumCountVectors == 4

\* project counts of the five categories, in the order of policy_categories
CountVectors ==
    << <<4, 0, 4, 0, 0>>, <<0, 0, 0, 0, 0>>, <<3, 0, 0, 0, 0>>, <<1, 2, 0, 0, 1>>,
       <<2, 2, 2, 2, 2>> >>

CountVectorIds == 1..Min2(NumCountVectors, Len(CountVectors))

\* the counts of vector v as a function of the category
CountProfileCounts(v) ==
    [c \in Categories |-> v[CHOOSE i \in 1..5 : policy_categories[i] = c]]

\* region_data whose categories declare the counts of vector v
CountProfile(v) ==
    [hasExec |-> TRUE,
     exec |-> [c \in Categories |->
                 Category(Num(v[CHOOSE i \in 1..5 : policy_categories[i] = c]),
                          FALSE, <<>>, Absent)]]

CountCatalogOf(S, vec) ==
    LET picked == SelectSeq([i \in 1..Len(CatalogNames) |-> i], LAMBDA i : i \in S)
    IN  [k \in 1..Len(picked) |->
            [name |-> CatalogNames[picked[k]],
             data |-> CountProfile(CountVectors[vec[picked[k]]])]]

CountCatalogs ==
    UNION {{CountCatalogOf(S, vec) : vec \in [S -> CountVectorIds]} :
           S \in {T \in SUBSET (1..Len(CatalogNames)) : Cardinality(T) <= MaxRegions}}

InitCounts ==
    /\ variant \in Variants
    /\ files \in [catalog : CountCatalogs, world : {Worlds[1]}]
    /\ policy_data = <<>>
    /\ youth_population_data = <<>>
    /\ finance_autonomy_data = <<>>
    /\ metropolitan_budget_data = <<>>
    /\ basic_budget_data = <<>>
    /\ category_stats = NoCache
    /\ results = <<>>
    /\ idx = 0
    /\ df = <<>>
    /\ linked_df = <<>>
    /\ written = {}
    /\ pc = "start"
    /\ error = "none"

NextCounts ==
    \/ LoadAllData
    \/ EvaluateBegin
    \/ EvaluateRegion

SpecCounts == InitCounts /\ [][NextCounts]_vars

(***************************************************************************)
(* The ranking and the linker on tables whose municipal rows carry the     *)
(* names of the parent resolution: a province name followed by a           *)
(* municipality, a bare two-character prefix, a name without a parent.     *)
(***************************************************************************)
MaxLinkRows == 2

MUNICIPALITY == <<" ", "x", "gun">>

\* municipal names handed to get_metro_region
LinkNames ==
    << GYEONGNAM \o MUNICIPALITY, GYEONGBUK \o MUNICIPALITY,
       JEONNAM \o MUNICIPALITY, JEONBUK \o MUNICIPALITY,
       CHUNGNAM \o MUNICIPALITY, CHUNGBUK \o MUNICIPALITY,
       SEOUL \o MUNICIPALITY, SUWON, GOYANG,
       <<"gyeong", "sang">> \o MUNICIPALITY >>

\* the rows a table is made of: a municipal row per name, two provinces
LinkRowChoices ==
    {ScoredRow(ResultRow(LinkNames[i], BASIC_TYPE, BlankAdmin(0), BlankStrategic(0)),
               Frac(1, 2), Frac(1, 2)) : i \in 1..Len(LinkNames)}
    \cup {ScoredRow(ResultRow(m, METRO_TYPE, BlankAdmin(0), BlankStrategic(0)),
                    FOne, FOne) : m \in {GYEONGNAM, GYEONGBUK}}

\* df after calculate_comprehensive_scores: one to MaxLinkRows different rows
LinkTables ==
    UNION {{t \in [1..k -> LinkRowChoices] :
              \A i \in 1..k : \A j \in 1..k : i # j => t[i] # t[j]} :
           k \in 1..MaxLinkRows}

InitLink ==
    /\ variant \in Variants
    /\ files = [catalog |-> <<>>, world |-> Worlds[2]]
    /\ policy_data = <<>>
    /\ youth_population_data = <<>>
    /\ finance_autonomy_data = <<>>
    /\ metropolitan_budget_data = <<>>
    /\ basic_budget_data = <<>>
    /\ category_stats = NoCache
    /\ results = <<>>
    /\ idx = 1
    /\ df \in LinkTables
    /\ linked_df = <<>>
    /\ written = {}
    /\ pc = "scored"
    /\ error = "none"

NextLink ==
    \/ AddRankings
    \/ SaveResults
    \/ PrintSummary

SpecLink == InitLink /\ [][NextLink]_vars

(***************************************************************************)
(* The loader and the evaluator on two municipalities that differ in their *)
(* fiscal autonomy alone: the same region_data, budgets and populations in *)
(* proportion, and any two percentages of the fiscal-autonomy table.       *)
(***************************************************************************)
\* 재정자립도, in percent
AutonomyPercents == {0, 20, 30, 50, 100}

\* the tables of Worlds[1] with the given percentages for the two municipalities
AutonomyWorld(pct1, pct2) ==
    [Worlds[1] EXCEPT !.fin = <<FinRow(SUWON, pct1), FinRow(GOYANG, pct2)>>]

\* both municipalities with the region_data of profile p
AutonomyCatalog(p) ==
    <<[name |-> SUWON, data |-> Profiles[p]], [name |-> GOYANG, data |-> Profiles[p]]>>

InitAutonomy ==
    /\ variant \in Variants
    /\ files \in [catalog : {AutonomyCatalog(p) : p \in ProfileIds},
                  world : {AutonomyWorld(pct1, pct2) :
                              pct1 \in AutonomyPercents, pct2 \in AutonomyPercents}]
    /\ policy_data = <<>>
    /\ youth_population_data = <<>>
    /\ finance_autonomy_data = <<>>
    /\ metropolitan_budget_data = <<>>
    /\ basic_budget_data = <<>>
    /\ category_stats = NoCache
    /\ results = <<>>
    /\ idx = 0
    /\ df = <<>>
    /\ linked_df = <<>>
    /\ written = {}
    /\ pc = "start"
    /\ error = "none"

NextAutonomy ==
    \/ LoadAllData
    \/ EvaluateBegin
    \/ EvaluateRegion

SpecAutonomy == InitAutonomy /\ [][NextAutonomy]_vars

(***************************************************************************)
(* One evaluator instance used call by call: load_all_data, then calls of  *)
(* calculate_strategic_intensity for any name and peer group, the catalog  *)
(* on disk being replaced between two loads.                               *)
(***************************************************************************)
\* the catalogs found on disk: none, one municipality with two different
\* region_data, and two pairs of a municipality and a metropolitan region
CallCatalogs ==
    {CatalogOf({}, <<>>),
     CatalogOf({1}, [i \in {1} |-> 1]),
     CatalogOf({1}, [i \in {1} |-> 3]),
     CatalogOf({1, 2}, [i \in {1, 2} |-> IF i = 1 THEN 1 ELSE 3]),
     CatalogOf({3, 4}, [i \in {3, 4} |-> IF i = 3 THEN 3 ELSE 1])}

\* the region names a caller asks for
CallNames == {CatalogNames[i] : i \in 1..Len(CatalogNames)}

InitCalls ==
    /\ variant \in Variants
    /\ files \in [catalog : CallCatalogs, world : {Worlds[1]}]
    /\ policy_data = <<>>
    /\ youth_population_data = <<>>
    /\ finance_autonomy_data = <<>>
    /\ metropolitan_budget_data = <<>>
    /\ basic_budget_data = <<>>
    /\ category_stats = NoCache
    /\ results = <<>>
    /\ idx = 0
    /\ df = <<>>
    /\ linked_df = <<>>
    /\ written = {}
    /\ pc = "start"
    /\ error = "none"

\* the catalog files are replaced on disk and the caller is about to call
\* load_all_data again
CatalogReplaced ==
    /\ pc = "loaded"
    /\ \E catalog \in CallCatalogs :
          /\ catalog # files.catalog
          /\ files' = [files EXCEPT !.catalog = catalog]
    /\ pc' = "start"
    /\ UNCHANGED <<variant, policy_data, youth_population_data,
                   finance_autonomy_data, metropolitan_budget_data,
                   basic_budget_data, category_stats, results, idx, df,
                   linked_df, written, error>>

\* one call of calculate_strategic_intensity(region_name, override_region_type);
\* results holds what the call returned
CallStrategic ==
    /\ pc = "loaded"
    /\ \E region_name \in CallNames : \E override_region_type \in {"none", "metro", "basic"} :
          LET result == calculate_strategic_intensity(region_name, override_region_type)
          IN  /\ results' = << ResultRow(region_name,
                                        IF PeerIsMetro(region_name, override_region_type)
                                        THEN METRO_TYPE ELSE BASIC_TYPE,
                                        BlankAdmin(0), result) >>
              /\ IF result.error = "none"
                 THEN pc' = pc /\ error' = error
                 ELSE pc' = "failed" /\ error' = result.error
    /\ category_stats' = CacheAfterCall
    /\ UNCHANGED <<variant, files, policy_data, youth_population_data,
                   finance_autonomy_data, metropolitan_budget_data,
                   basic_budget_data, idx, df, linked_df, written>>

NextCalls ==
    \/ LoadAllData
    \/ CatalogReplaced
    \/ CallStrategic

SpecCalls == InitCalls /\ [][NextCalls]_vars

(***************************************************************************)
(* Properties.                                                             *)
(***************************************************************************)
AfterScoring == pc \in {"scored", "ranked", "saved", "done"}

AfterRanking == pc \in {"ranked", "saved", "done"}

AfterSaving == pc \in {"saved", "done"}

\* 0 <= f <= 1
InUnit(f) == f.n >= 0 /\ f.n <= f.d

\* C1: after add_rankings on a table of N >= 1 rows (both rows of a dual-role
\* region included) the overall ranks are a permutation of 1..N: every value
\* of 1..N is the rank of exactly one row.
C1_OverallRankPermutation ==
    (AfterRanking /\ Len(df) >= 1) =>
        /\ \A i \in 1..Len(df) : df[i].overall_rank \in 1..Len(df)
        /\ \A k \in 1..Len(df) :
              Cardinality({i \in 1..Len(df) : df[i].overall_rank = k}) = 1

\* a ranked table of three or more rows with both rows of a dual-role region
\* and two rows of equal composite score
C1_Witness ==
    /\ pc = "ranked"
    /\ Len(df) >= 3
    /\ \E i \in 1..Len(df) : \E j \in 1..Len(df) :
          i # j /\ df[i].name = df[j].name /\ df[i].name \in special_dual_role_regions
    /\ \E i \in 1..Len(df) : \E j \in 1..Len(df) :
          i # j /\ df[i].composite = df[j].composite

\* the normalized value v of a row whose intensity is x, in a column col:
\* within [0,1], 0 at the column's minimum and 1 at its maximum unless the
\* column is constant
ScaledOver(col, x, v) ==
    /\ InUnit(v)
    /\ (SeqMax(col) > SeqMin(col) /\ x = SeqMin(col)) => v = FZero
    /\ (SeqMax(col) > SeqMin(col) /\ x = SeqMax(col)) => v = FOne

\* C2: after calculate_comprehensive_scores on a non-empty table both
\* normalized intensities of every row lie in [0,1], each column being scaled
\* over all rows of all tiers (a row holding the column's minimum gets 0, one
\* holding its maximum gets 1, unless the column is constant), and the
\* composite score is the plain average of the two and lies in [0,1].
C2_NormalizedInUnitInterval ==
    (pc = "scored" /\ Len(df) >= 1) =>
        LET admin_col == [i \in 1..Len(df) |-> df[i].admin.administrative_intensity]
            strategic_col == [i \in 1..Len(df) |-> df[i].strat.strategic_intensity]
        IN  \A i \in 1..Len(df) :
                /\ ScaledOver(admin_col, admin_col[i], df[i].admin_norm)
                /\ ScaledOver(strategic_col, strategic_col[i], df[i].strategic_norm)
                /\ InUnit(df[i].composite)
                /\ FAdd(df[i].composite, df[i].composite)
                     = FAdd(df[i].admin_norm, df[i].strategic_norm)

\* a scored table with rows of both tiers and values strictly inside (0,1)
C2_Witness ==
    /\ pc = "scored"
    /\ \E i \in 1..Len(df) : df[i].type = METRO_TYPE
    /\ \E i \in 1..Len(df) : df[i].type = BASIC_TYPE
    /\ \E i \in 1..Len(df) : df[i].admin_norm.n > 0 /\ df[i].admin_norm.n < df[i].admin_norm.d
    /\ \E i \in 1..Len(df) :
          df[i].strategic_norm.n > 0 /\ df[i].strategic_norm.n < df[i].strategic_norm.d

\* the loop of evaluate_all_regions has passed key j of policy_data
Evaluated(j) == pc = "evaluating" /\ j < idx

\* the counts of category c over the cached regions of one tier
PeerCounts(is_metro, c) ==
    LET group == SelectSeq(category_stats.rows, LAMBDA r : r.is_metro = is_metro)
    IN  [i \in 1..Len(group) |-> group[i].counts[c]]

\* C3: a dual-role region of the catalog yields exactly two rows, the first
\* tagged Metropolitan and the second Municipal, with identical administrative
\* fields and identical raw counts; the category scores of the first are taken
\* against the metropolitan regions, those of the second against the
\* municipal regions.
C3_DualRoleTwoRows ==
    \A j \in 1..Len(policy_data) :
        (Evaluated(j) /\ policy_data[j].name \in special_dual_role_regions) =>
            LET rows == SelectSeq(results, LAMBDA r : r.name = policy_data[j].name)
            IN  /\ Len(rows) = 2
                /\ rows[1].type = METRO_TYPE
                /\ rows[2].type = BASIC_TYPE
                /\ rows[1].admin = rows[2].admin
                /\ rows[1].strat.counts = rows[2].strat.counts
                /\ \A c \in Categories :
                      /\ rows[1].strat.counts[c]
                           = CategoryCount(policy_data[j].data.exec, c)
                      /\ rows[1].strat.scores[c]
                           = ScaledScore(RawScore(rows[1].strat.counts[c],
                                                  PeerCounts(TRUE, c)))
                      /\ rows[2].strat.scores[c]
                           = ScaledScore(RawScore(rows[2].strat.counts[c],
                                                  PeerCounts(FALSE, c)))

\* the evaluation is over and the two rows of a dual-role region differ in a
\* category score
C3_Witness ==
    /\ pc = "evaluating"
    /\ idx > Len(policy_data)
    /\ \E i \in 1..Len(results) : \E j \in 1..Len(results) :
          /\ results[i].name = results[j].name
          /\ results[i].type = METRO_TYPE
          /\ results[j].type = BASIC_TYPE
          /\ results[i].admin.administrative_intensity > 0
          /\ \E c \in Categories : results[i].strat.scores[c] # results[j].strat.scores[c]

\* C4: every municipal row has one linked row, whose linked score is
\* municipal_composite * basic_weight + parent_metro_composite * metro_weight
\* with weights that sum to 1 (0.7/0.3 in v2, 0.5/0.5 in the sigmoid-only
\* script); own composite 0.6, parent composite 0.8 and weights 0.7/0.3 give
\* 0.66.
C4_LinkedScoreFormula ==
    AfterSaving =>
        LET bw == IF variant = "v2" THEN Frac(7, 10) ELSE Frac(1, 2)
            mw == IF variant = "v2" THEN Frac(3, 10) ELSE Frac(1, 2)
        IN  /\ FAdd(bw, mw) = FOne
            /\ \A i \in 1..Len(df) :
                  df[i].type = BASIC_TYPE =>
                      \E k \in 1..Len(linked_df) :
                          /\ linked_df[k].name = df[i].name
                          /\ linked_df[k].composite = df[i].composite
            /\ \A k \in 1..Len(linked_df) :
                  /\ linked_df[k].linked_score
                       = FAdd(FMul(linked_df[k].composite, bw),
                              FMul(linked_df[k].metro_composite, mw))
                  /\ \A i \in 1..Len(df) :
                        (df[i].type = METRO_TYPE /\ df[i].name = linked_df[k].parent)
                            => linked_df[k].metro_composite = df[i].composite
                  /\ (variant = "v2"
                      /\ linked_df[k].composite = Frac(6, 10)
                      /\ linked_df[k].metro_composite = Frac(8, 10))
                     => linked_df[k].linked_score = Frac(66, 100)

\* the regression case: 0.6 own, 0.8 parent, weights 0.7/0.3
C4_Witness ==
    /\ pc = "saved"
    /\ variant = "v2"
    /\ \E k \in 1..Len(linked_df) :
          /\ linked_df[k].parent = GYEONGGI
          /\ linked_df[k].composite = Frac(6, 10)
          /\ linked_df[k].metro_composite = Frac(8, 10)
          /\ linked_df[k].linked_score = Frac(66, 100)

\* the parent recorded in a linked row has no row in the metropolitan table
Unresolved(row) ==
    \/ row.parent = NoParent
    \/ ~\E i \in 1..Len(df) : df[i].type = METRO_TYPE /\ df[i].name = row.parent

\* C5: a municipal row whose parent is not resolved (no metropolitan name
\* matches, or the matched region has no evaluated row) gets parent composite
\* 0; save_results ends without an exception and the linked table has exactly
\* one row for every municipal row of the ranked table.
C5_UnresolvedParentFallback ==
    (AfterSaving /\ Len(df) >= 1) =>
        /\ error = "none"
        /\ Len(linked_df) = Len(OfType(df, BASIC_TYPE))
        /\ \A i \in 1..Len(df) :
              df[i].type = BASIC_TYPE =>
                  Cardinality({k \in 1..Len(linked_df) :
                                  linked_df[k].name = df[i].name}) = 1
        /\ \A k \in 1..Len(linked_df) :
              Unresolved(linked_df[k]) => linked_df[k].metro_composite = FZero

\* both kinds of unresolved parent in one linked table
C5_Witness ==
    /\ pc = "saved"
    /\ \E k \in 1..Len(linked_df) : linked_df[k].parent = NoParent
    /\ \E k \in 1..Len(linked_df) :
          linked_df[k].parent # NoParent /\ Unresolved(linked_df[k])

\* a result of the administrative calculator: no math domain error and an
\* intensity >= 0 when the concentration index is >= 0 and the autonomy in (0,1]
AdminContract(r) ==
    (/\ r.concentration_index.n >= 0
     /\ r.finance_autonomy.n > 0
     /\ FLe(r.finance_autonomy, FOne))
    => (r.ok /\ r.administrative_intensity >= 0)

\* C6: for every region, whenever the concentration index is >= 0 and the
\* fiscal autonomy lies in (0,1], calculate_administrative_intensity returns
\* without a math domain error and its administrative intensity is >= 0;
\* stated of the calculator on the loaded tables and of the rows it fills.
C6_AdminIntensityNonNegative ==
    /\ pc = "loaded" =>
          \A i \in 1..Len(policy_data) :
              AdminContract(calculate_administrative_intensity(policy_data[i].name))
    /\ \A i \in 1..Len(results) : AdminContract(results[i].admin)

\* the tables hold a region with a positive concentration index and an
\* autonomy strictly inside (0,1), one with concentration index 0, and one
\* with autonomy exactly 1
C6_Witness ==
    /\ pc = "loaded"
    /\ \E i \in 1..Len(policy_data) :
          LET r == calculate_administrative_intensity(policy_data[i].name)
          IN  /\ r.concentration_index.n > 0
              /\ r.finance_autonomy.n > 0
              /\ FLt(r.finance_autonomy, FOne)
              /\ r.administrative_intensity > 0
    /\ \E i \in 1..Len(policy_data) :
          LET r == calculate_administrative_intensity(policy_data[i].name)
          IN  /\ r.concentration_index = FZero
              /\ r.finance_autonomy.n > 0
              /\ r.administrative_intensity = 0

\* the peer groups a call can name
Overrides == {"none", "metro", "basic"}

\* a result of the strategic calculator: intensity >= 0, and entropy score 0
\* with fewer than two categories of non-zero count
StrategicContract(r) ==
    /\ r.error = "none"
    /\ r.strategic_intensity >= 0
    /\ Cardinality({c \in Categories : r.counts[c] # 0}) < 2
          => r.entropy_score = FZero

\* C7: for every region (known to the cache or not) and every peer group,
\* calculate_strategic_intensity on the cache of a catalog that holds a
\* region returns strategic_intensity >= 0, and the
\* normalized entropy score is exactly 0 when fewer than two of the five
\* categories have a non-zero project count; stated of the calculator once
\* the cache is built and of the rows it fills.
C7_StrategicNonNegative ==
    /\ (pc = "evaluating" /\ idx = 1 /\ category_stats.built) =>
          \A n \in 1..Len(CatalogNames) : \A ov \in Overrides :
              StrategicContract(StrategicFrom(category_stats.rows, CatalogNames[n], ov))
    /\ pc = "evaluating" =>
          \A i \in 1..Len(results) : StrategicContract(results[i].strat)

\* the result table holds a region with one active category, one with none,
\* and one with several categories and a positive entropy score
C7_Witness ==
    /\ pc = "evaluating"
    /\ \E i \in 1..Len(results) :
          /\ Cardinality({c \in Categories : results[i].strat.counts[c] # 0}) = 1
          /\ results[i].strat.strategic_intensity > 0
    /\ \E i \in 1..Len(results) :
          Cardinality({c \in Categories : results[i].strat.counts[c] # 0}) = 0
    /\ \E i \in 1..Len(results) :
          /\ Cardinality({c \in Categories : results[i].strat.counts[c] # 0}) >= 2
          /\ results[i].strat.entropy_score.n > 0

\* the two intensity columns of the result table, in thousandths
AdminColumn == [i \in 1..Len(results) |-> results[i].admin.administrative_intensity]

StrategicColumn == [i \in 1..Len(results) |-> results[i].strat.strategic_intensity]

\* the values of a column lie in [0,1] and its minimum is 0 and its maximum 1
AlreadyNormalized(col) ==
    /\ Len(col) >= 1
    /\ \A i \in 1..Len(col) : col[i] >= 0 /\ col[i] <= 1000
    /\ \E i \in 1..Len(col) : col[i] = 0
    /\ \E i \in 1..Len(col) : col[i] = 1000

\* C8: min-max normalization is idempotent: a column of
\* calculate_comprehensive_scores whose values lie in [0,1] with minimum 0
\* and maximum 1 comes back with every value unchanged.
C8_MinMaxIdempotent ==
    (pc = "scored" /\ Len(df) = Len(results)) =>
        /\ AlreadyNormalized(AdminColumn) =>
              \A i \in 1..Len(df) : df[i].admin_norm = Frac(AdminColumn[i], 1000)
        /\ AlreadyNormalized(StrategicColumn) =>
              \A i \in 1..Len(df) : df[i].strategic_norm = Frac(StrategicColumn[i], 1000)

\* a normalized column with an interior value went through the scaling
C8_Witness ==
    /\ pc = "scored"
    /\ Len(df) = Len(results)
    /\ AlreadyNormalized(AdminColumn)
    /\ \E i \in 1..Len(df) : AdminColumn[i] = 250 /\ df[i].admin_norm = Frac(1, 4)
    /\ AlreadyNormalized(StrategicColumn)
    /\ \E i \in 1..Len(df) : StrategicColumn[i] = 250

\* C9: when the maximum of an intensity column equals its minimum over all
\* rows, calculate_comprehensive_scores gives every row the normalized value
\* 0.5 for that column.
C9_DegenerateIsHalf ==
    (AfterScoring /\ Len(df) >= 1) =>
        /\ (\A i \in 1..Len(df) : \A j \in 1..Len(df) :
               df[i].admin.administrative_intensity = df[j].admin.administrative_intensity)
           => \A i \in 1..Len(df) : df[i].admin_norm = Frac(1, 2)
        /\ (\A i \in 1..Len(df) : \A j \in 1..Len(df) :
               df[i].strat.strategic_intensity = df[j].strat.strategic_intensity)
           => \A i \in 1..Len(df) : df[i].strategic_norm = Frac(1, 2)

\* the inputs of the worked example: budgets in millions of won
ExampleInputs(r) ==
    /\ r.youth_policy_budget = 1
    /\ r.total_budget = 100
    /\ r.youth_population = 10000
    /\ r.total_population = 200000
    /\ r.finance_autonomy = Frac(3, 10)

\* the quotients of a result r of the administrative calculator for a region
\* that is municipal or not
RatiosHold(r, municipal) ==
    /\ r.youth_population > 0 =>
          FDiv(r.budget_per_youth, FInt(1000000))
             = Frac(r.youth_policy_budget, r.youth_population)
    /\ r.total_population > 0 =>
          FDiv(r.budget_per_capita, FInt(1000000))
             = Frac(r.total_budget, r.total_population)
    /\ r.budget_per_capita.n > 0 =>
          FMul(r.concentration_index, r.budget_per_capita) = r.budget_per_youth
    /\ (ExampleInputs(r) /\ municipal) =>
          /\ r.budget_per_youth = FInt(100)
          /\ r.budget_per_capita = FInt(500)
          /\ r.concentration_index = Frac(2, 10)
          /\ r.ok
          /\ r.administrative_intensity \in 510..511

\* C10: budget_per_youth = youth budget / youth population, budget_per_capita
\* = total budget / total population (budgets in won), concentration_index is
\* their quotient; a municipal region with youth budget 1,000,000 won, total
\* budget 100,000,000 won, 10,000 young of 200,000 inhabitants and autonomy
\* 0.3 gets 100, 500, 0.2 and ln(0.2/0.3 + 1) = 0.5108...
C10_AdminRatios ==
    /\ pc = "loaded" =>
          \A i \in 1..Len(policy_data) :
              RatiosHold(calculate_administrative_intensity(policy_data[i].name),
                         ~is_metropolitan_area(policy_data[i].name))
    /\ pc = "evaluating" =>
          \A i \in 1..Len(results) :
              RatiosHold(results[i].admin, results[i].type = BASIC_TYPE)

\* the municipal region of the worked example is in the loaded catalog
C10_Witness ==
    /\ pc = "loaded"
    /\ \E i \in 1..Len(policy_data) :
          /\ ~is_metropolitan_area(policy_data[i].name)
          /\ ExampleInputs(calculate_administrative_intensity(policy_data[i].name))
          /\ calculate_administrative_intensity(policy_data[i].name).concentration_index
                = Frac(1, 5)

\* the counts that are not zero are all the same, in two categories or more
EqualSplit(counts) ==
    /\ Cardinality({c \in Categories : counts[c] > 0}) >= 2
    /\ \A c \in Categories : \A e \in Categories :
          (counts[c] > 0 /\ counts[e] > 0) => counts[c] = counts[e]

\* C11: a region whose non-zero category counts are all equal, in at least
\* two categories (such as 4,0,4,0,0), gets the normalized entropy score 1.0;
\* the entropy score of every region lies in [0,1].
C11_EqualSplitIsOne ==
    \A i \in 1..Len(results) :
        /\ InUnit(results[i].strat.entropy_score)
        /\ EqualSplit(results[i].strat.counts) => results[i].strat.entropy_score = FOne
        /\ results[i].strat.counts = CountProfileCounts(CountVectors[1])
              => results[i].strat.entropy_score = FOne

\* the rows hold the region with counts 4,0,4,0,0 and a region with unequal
\* counts whose entropy score is strictly inside (0,1)
C11_Witness ==
    /\ pc = "evaluating"
    /\ \E i \in 1..Len(results) :
          /\ results[i].strat.counts["job"] = 4
          /\ results[i].strat.counts["education"] = 4
          /\ results[i].strat.counts["housing"] = 0
          /\ results[i].strat.entropy_score = FOne
    /\ \E i \in 1..Len(results) :
          /\ results[i].strat.entropy_score.n > 0
          /\ results[i].strat.entropy_score.n < results[i].strat.entropy_score.d

\* the catalog directory holds no catalog file: the glob of _load_policy_data
\* yields nothing and the loop body never runs
CatalogAbsent == files.catalog = <<>>

\* one of the four input tables is absent
TableAbsent ==
    \/ CatalogAbsent
    \/ ~files.world.popFile
    \/ ~files.world.finFile
    \/ ~files.world.budgetFiles

\* C12: the absence of any one of the four input tables (catalog, population,
\* fiscal autonomy, budget) aborts the run during loading, before any
\* scoring, with the error of the missing file; nothing else aborts a run.
C12_MissingTableAbortsAtLoad ==
    /\ (TableAbsent /\ pc # "start") =>
          /\ pc = "failed"
          /\ error = "FileNotFoundError"
          /\ results = <<>> /\ df = <<>> /\ ~category_stats.built
    /\ pc = "failed" => TableAbsent

\* a budget value that is a string without a digit
Unparsable(value) == value.kind = "str" /\ ~ParseDigits(value.s).ok

\* the execution map with every unparsable budget figure replaced by the number 0
ZeroedExec(policy_execution) ==
    [c \in DOMAIN policy_execution |->
        [policy_execution[c] EXCEPT
            !.projects = [k \in 1..Len(@) |->
                            IF Unparsable(@[k].budget)
                            THEN [@[k] EXCEPT !.budget = Num(0)] ELSE @[k]],
            !.total = IF Unparsable(@) THEN Num(0) ELSE @]]

\* C13: a budget value that is not a number is parsed again from its digits;
\* when that fails the figure counts as 0 and calculate_youth_policy_budget
\* goes on with the remaining projects and categories without raising: the
\* total is the one of the catalog with those figures replaced by 0, a string
\* with digits counts with the number its digits spell, and the evaluation
\* proceeds without an error.
C13_UnparsableBudgetIsZero ==
    /\ pc = "loaded" =>
          \A i \in 1..Len(policy_data) :
              LET exec == policy_data[i].data.exec
                  budget == calculate_youth_policy_budget(policy_data[i].name)
              IN  /\ budget = SumCategoryBudgets(ZeroedExec(exec), DOMAIN exec)
                  /\ budget >= 0
                  /\ policy_data[i].data = Profiles[1] => budget = 1
                  /\ policy_data[i].data = Profiles[2] => budget = 15 + 4
    /\ pc = "evaluating" =>
          /\ error = "none"
          /\ \A i \in 1..Len(results) :
                \A j \in 1..Len(policy_data) :
                    (policy_data[j].name = results[i].name
                     /\ policy_data[j].data = Profiles[1])
                    => results[i].admin.youth_policy_budget = 1

\* a loaded catalog with a region whose first project budget is unparsable
\* and whose second is a number, and a region with a budget string that has
\* digits
C13_Witness ==
    /\ pc = "loaded"
    /\ \E i \in 1..Len(policy_data) :
          /\ "job" \in DOMAIN policy_data[i].data.exec
          /\ Len(policy_data[i].data.exec["job"].projects) = 2
          /\ Unparsable(policy_data[i].data.exec["job"].projects[1].budget)
          /\ policy_data[i].data.exec["job"].projects[2].budget = Num(1)
          /\ calculate_youth_policy_budget(policy_data[i].name) = 1
    /\ \E i \in 1..Len(policy_data) :
          /\ "job" \in DOMAIN policy_data[i].data.exec
          /\ policy_data[i].data.exec["job"].total.kind = "str"
          /\ calculate_youth_policy_budget(policy_data[i].name) = 19

\* the distribution has no member or all its members are equal
DegenerateDistribution(distribution) ==
    \A i \in 1..Len(distribution) : \A j \in 1..Len(distribution) :
        distribution[i] = distribution[j]

\* C14: whenever the peer group's distribution of a category's counts is
\* degenerate (zero variance, or no member), the region's standing for that
\* category before squashing is the neutral 0.5 (so the squashed score is
\* 0.5 as well) and no exception is raised.
C14_DegenerateStandingIsHalf ==
    pc = "evaluating" =>
        /\ error = "none"
        /\ \A i \in 1..Len(results) : \A c \in Categories :
              LET distribution == PeerCounts(results[i].type = METRO_TYPE, c)
              IN  DegenerateDistribution(distribution) =>
                      /\ RawScore(results[i].strat.counts[c], distribution) = 500
                      /\ results[i].strat.scores[c] = 500

\* the place of a ranked row in the table handed to add_rankings (the rows of
\* evaluate_all_regions, in their order)
InputPlace(row) ==
    CHOOSE k \in 1..Len(results) :
        results[k].name = row.name /\ results[k].type = row.type

\* C15: add_rankings orders the rows by composite score descending: a row
\* with a strictly higher composite score has a smaller overall rank, and of
\* two rows with equal composite scores the one that comes first in the input
\* table has the smaller overall rank.
C15_StableDescendingRank ==
    (pc = "ranked" /\ Len(df) = Len(results)) =>
        \A a \in 1..Len(df) : \A b \in 1..Len(df) :
            /\ FLt(df[b].composite, df[a].composite)
                  => df[a].overall_rank < df[b].overall_rank
            /\ (df[a].composite = df[b].composite
                /\ InputPlace(df[a]) < InputPlace(df[b]))
                  => df[a].overall_rank < df[b].overall_rank

\* the rank of a row within its own tier
OwnTierRank(row) == IF row.type = METRO_TYPE THEN row.metro_rank ELSE row.basic_rank

\* C16: after add_rankings, within the Metropolitan rows and within the
\* Municipal rows separately, the own-tier ranks are a permutation of 1..M
\* (M the number of rows of the tier) and follow the composite score
\* descending.
C16_TierRankPermutation ==
    pc = "ranked" =>
        \A tier \in {METRO_TYPE, BASIC_TYPE} :
            LET rows == OfType(df, tier)
            IN  /\ \A k \in 1..Len(rows) :
                      Cardinality({i \in 1..Len(rows) : OwnTierRank(rows[i]) = k}) = 1
                /\ \A i \in 1..Len(rows) : OwnTierRank(rows[i]) \in 1..Len(rows)
                /\ \A a \in 1..Len(rows) : \A b \in 1..Len(rows) :
                      FLt(rows[b].composite, rows[a].composite)
                         => OwnTierRank(rows[a]) < OwnTierRank(rows[b])

\* a ranked table with two rows of different composite score in each tier,
\* a dual-role region among them, and the tiers interleaved in the overall
\* order
C16_Witness ==
    /\ pc = "ranked"
    /\ \A tier \in {METRO_TYPE, BASIC_TYPE} :
          \E i \in 1..Len(df) : \E j \in 1..Len(df) :
              /\ df[i].type = tier /\ df[j].type = tier
              /\ FLt(df[i].composite, df[j].composite)
    /\ \E i \in 1..Len(df) : \E j \in 1..Len(df) :
          i # j /\ df[i].name = df[j].name
    /\ \E i \in 1..Len(df) : OwnTierRank(df[i]) # df[i].overall_rank

\* C17: the linker ranks all municipal rows by linked score descending: the
\* final linked ranks are a permutation of 1..M over the M municipal rows,
\* and a row with a strictly higher linked score has a smaller linked rank.
C17_LinkedRankPermutation ==
    (pc = "saved" /\ Len(df) >= 1) =>
        /\ Len(linked_df) = Len(OfType(df, BASIC_TYPE))
        /\ \A k \in 1..Len(linked_df) :
              Cardinality({i \in 1..Len(linked_df) : linked_df[i].final_rank = k}) = 1
        /\ \A i \in 1..Len(linked_df) : linked_df[i].final_rank \in 1..Len(linked_df)
        /\ \A a \in 1..Len(linked_df) : \A b \in 1..Len(linked_df) :
              FLt(linked_df[b].linked_score, linked_df[a].linked_score)
                 => linked_df[a].final_rank < linked_df[b].final_rank

\* two municipal rows whose linked order is the reverse of their composite
\* order
C17_Witness ==
    /\ pc = "saved"
    /\ \E a \in 1..Len(linked_df) : \E b \in 1..Len(linked_df) :
          /\ FLt(linked_df[b].linked_score, linked_df[a].linked_score)
          /\ FLt(linked_df[a].composite, linked_df[b].composite)
          /\ linked_df[a].final_rank = 1

\* C18: in the linker a dual-role region is its own parent: its municipal row
\* records its own name as parent and the composite score of its own
\* Metropolitan row as parent score.
C18_DualRoleOwnParent ==
    pc = "saved" =>
        \A k \in 1..Len(linked_df) :
            linked_df[k].name \in special_dual_role_regions =>
                /\ linked_df[k].parent = linked_df[k].name
                /\ \E i \in 1..Len(df) :
                      /\ df[i].type = METRO_TYPE
                      /\ df[i].name = linked_df[k].name
                      /\ linked_df[k].metro_composite = df[i].composite
                /\ \E i \in 1..Len(df) :
                      /\ df[i].type = BASIC_TYPE
                      /\ df[i].name = linked_df[k].name
                      /\ linked_df[k].composite = df[i].composite

\* the municipal row of a dual-role region is linked to its own Metropolitan
\* row, whose score differs from its own and from that of another
\* metropolitan row ranked ahead of it
C18_Witness ==
    /\ pc = "saved"
    /\ \E k \in 1..Len(linked_df) :
          /\ linked_df[k].name = SEJONG
          /\ linked_df[k].parent = SEJONG
          /\ linked_df[k].metro_composite # linked_df[k].composite
          /\ linked_df[k].metro_composite.n > 0
          /\ \E i \in 1..Len(df) :
                /\ df[i].type = METRO_TYPE
                /\ df[i].name # SEJONG
                /\ FLt(linked_df[k].metro_composite, df[i].composite)

MemberCounts(is_metro, name, c) ==
    LET group == SelectSeq(category_stats.rows,
                           LAMBDA r : r.is_metro = is_metro \/ r.region_name = name)
    IN  [i \in 1..Len(group) |-> group[i].counts[c]]

\* C20: a dual-role region scored with the override 'basic' is scored as a
\* member of the municipal peer group: the distribution behind each
\* category's standing holds the counts of the municipal regions and its own
\* (with 'metro', those of the metropolitan regions and its own).
C20_DualRoleIsPeerMember ==
    pc = "evaluating" =>
        \A i \in 1..Len(results) :
            results[i].name \in special_dual_role_regions =>
                \A c \in Categories :
                    results[i].strat.scores[c]
                       = ScaledScore(RawScore(results[i].strat.counts[c],
                                              MemberCounts(results[i].type = METRO_TYPE,
                                                           results[i].name, c)))

\* C21: within one run the peer-group snapshot is computed exactly once,
\* before the first per-region score is produced: the building block runs at
\* most once, no row of results exists without it, and every later call
\* leaves the snapshot as it is and reads its counts from it.
C21_SnapshotBuiltOnce ==
    /\ [](/\ category_stats.builds <= 1
          /\ category_stats.built <=> category_stats.builds = 1
          /\ results # <<>> =>
                /\ category_stats.built
                /\ category_stats.rows = BuildCategoryStats
          /\ \A i \in 1..Len(results) :
                \E k \in 1..Len(category_stats.rows) :
                    /\ category_stats.rows[k].region_name = results[i].name
                    /\ category_stats.rows[k].counts = results[i].strat.counts)
    /\ [][category_stats.built => category_stats' = category_stats]_vars
    /\ [][category_stats' # category_stats => results' = <<>>]_vars

\* the evaluation of a catalog of two or more regions, one of them dual-role
\* (four calls or more after the priming call), is over
C21_Witness ==
    /\ pc = "evaluating"
    /\ idx > Len(policy_data)
    /\ Len(policy_data) >= 2
    /\ Len(results) > Len(policy_data)
    /\ category_stats.builds = 1

\* the number of rows evaluate_all_regions returns for the loaded catalog: two
\* for a dual-role region, one for any other
ExpectedRows ==
    SeqSum([j \in 1..Len(policy_data) |->
               IF policy_data[j].name \in special_dual_role_regions THEN 2 ELSE 1])

\* the order of the phases of run_evaluation; any phase may end the run
PhaseEdges ==
    {<<"start", "loaded">>, <<"loaded", "evaluating">>, <<"evaluating", "scored">>,
     <<"scored", "ranked">>, <<"ranked", "saved">>, <<"saved", "done">>}
    \cup {<<"start", "failed">>, <<"evaluating", "failed">>, <<"scored", "failed">>}

\* every row of df carries its place in the overall order
RankingFinished == \A i \in 1..Len(df) : df[i].overall_rank = i

\* C22: the phases of a run happen in a fixed order with two barriers:
\* normalized rows exist only once the evaluation loop has passed every region
\* and the raw intensities of all rows (both rows of a dual-role region) are
\* in the table; linked rows exist only once ranking has finished, and their
\* parent scores are the composite scores of the ranked metropolitan rows.
C22_PhaseBarriers ==
    /\ [](df # <<>> =>
            /\ idx > Len(policy_data)
            /\ Len(results) = ExpectedRows
            /\ Len(df) = Len(results)
            /\ \A i \in 1..Len(results) :
                  \E k \in 1..Len(df) :
                      /\ df[k].name = results[i].name
                      /\ df[k].type = results[i].type
                      /\ df[k].admin = results[i].admin
                      /\ df[k].strat = results[i].strat)
    /\ [](linked_df # <<>> =>
            /\ AfterSaving
            /\ RankingFinished
            /\ \A k \in 1..Len(linked_df) : \A i \in 1..Len(df) :
                  (df[i].type = METRO_TYPE /\ df[i].name = linked_df[k].parent)
                     => linked_df[k].metro_composite = df[i].composite)
    /\ [][pc' # pc => <<pc, pc'>> \in PhaseEdges]_vars
    /\ [][df' # df => (pc \in {"evaluating", "scored"} /\ results' = results
                       /\ idx > Len(policy_data))]_vars
    /\ [][linked_df' # linked_df => (pc = "ranked" /\ RankingFinished /\ df' = df)]_vars

\* a run is over whose table has both rows of a dual-role region, another
\* municipal row, and a linked row with a positive parent score
C22_Witness ==
    /\ pc = "done"
    /\ Len(results) > Len(policy_data)
    /\ Len(linked_df) >= 2
    /\ \E k \in 1..Len(linked_df) : linked_df[k].metro_composite.n > 0

\* the count the rule "declared count if present, else the number of entries,
\* 0 for a missing category" gives for one category
PreferredCount(policy_execution, category) ==
    IF category \notin DOMAIN policy_execution THEN 0
    ELSE LET category_data == policy_execution[category]
         IN  IF category_data.count.kind = "num" THEN category_data.count.v
             ELSE IF category_data.hasProjects THEN Len(category_data.projects)
             ELSE 0

\* the execution map without the categories outside the fixed five
KnownOnly(policy_execution) ==
    [c \in (DOMAIN policy_execution) \cap Categories |-> policy_execution[c]]

\* C23: for each of the five categories the count of a region is its declared
\* count whenever that field is present, otherwise the number of entries of
\* the category, and 0 for a missing category; categories outside the five
\* change no count.
C23_DeclaredCountPreferred ==
    \A i \in 1..Len(results) : \A j \in 1..Len(policy_data) :
        policy_data[j].name = results[i].name =>
            \A c \in Categories :
                /\ results[i].strat.counts[c]
                     = PreferredCount(policy_data[j].data.exec, c)
                /\ results[i].strat.counts[c]
                     = CategoryCount(KnownOnly(policy_data[j].data.exec), c)

\* a project carries a budget that is a number or parses as one
HasNumericBudget(project) ==
    /\ project.isDict
    /\ project.budget.kind # "absent"
    /\ ~Unparsable(project.budget)

\* the contribution of a category under the bottom-up rule: the sum of the
\* project budgets when one of them is present and numeric, else the
\* aggregate budget, else 0
BottomUpBudget(category_data) ==
    IF /\ category_data.hasProjects
       /\ \E k \in 1..Len(category_data.projects) :
             HasNumericBudget(category_data.projects[k])
    THEN ProjectsBudget(category_data.projects)
    ELSE IF category_data.total.kind # "absent"
    THEN BudgetNumber(category_data.total)
    ELSE 0

RECURSIVE SumBottomUp(_, _)
SumBottomUp(policy_execution, keys) ==
    IF keys = {} THEN 0
    ELSE LET category == CHOOSE c \in keys : TRUE
         IN  BottomUpBudget(policy_execution[category])
             + SumBottomUp(policy_execution, keys \ {category})

\* C24: calculate_youth_policy_budget sums bottom-up: a category contributes
\* the sum of its project budgets when at least one is present and numeric,
\* the category's aggregate budget only when none is, and 0 when that is
\* absent as well; the region's budget is the sum of the contributions.
C24_BottomUpBudget ==
    pc = "loaded" =>
        \A i \in 1..Len(policy_data) :
            calculate_youth_policy_budget(policy_data[i].name)
                = SumBottomUp(policy_data[i].data.exec,
                              DOMAIN policy_data[i].data.exec)

\* the claim's two regions: rows a and b of results have the same
\* concentration index > 0 and a's fiscal autonomy is below b's
SameIndexLowerAutonomy(a, b) ==
    /\ results[a].admin.concentration_index = results[b].admin.concentration_index
    /\ results[a].admin.concentration_index.n > 0
    /\ FLt(results[a].admin.finance_autonomy, results[b].admin.finance_autonomy)

\* C25 as stated: of two regions with the same concentration index > 0 and
\* fiscal autonomies f1 < f2, both within 0..1, the one with f1 has the
\* strictly higher administrative intensity.
C25_LowerAutonomyScoresHigher ==
    \A a \in 1..Len(results) : \A b \in 1..Len(results) :
        (/\ SameIndexLowerAutonomy(a, b)
         /\ InUnit(results[a].admin.finance_autonomy)
         /\ InUnit(results[b].admin.finance_autonomy))
        => results[a].admin.administrative_intensity
              > results[b].admin.administrative_intensity

\* C25, amended: of two regions with the same concentration index > 0 and
\* fiscal autonomies 0 < f1 < f2 <= 1, the one with f1 has the strictly higher
\* administrative intensity; a region with fiscal autonomy 0 is scored as one
\* with fiscal autonomy 1, so it never scores above a region of the same
\* concentration index.
C25_PositiveAutonomyScoresHigher ==
    \A a \in 1..Len(results) : \A b \in 1..Len(results) :
        (/\ SameIndexLowerAutonomy(a, b)
         /\ InUnit(results[b].admin.finance_autonomy))
        => IF results[a].admin.finance_autonomy.n > 0
           THEN results[a].admin.administrative_intensity
                   > results[b].admin.administrative_intensity
           ELSE /\ results[a].admin.administrative_intensity
                      <= results[b].admin.administrative_intensity
                /\ results[b].admin.finance_autonomy = FOne
                      => results[a].admin.administrative_intensity
                            = results[b].admin.administrative_intensity

\* both municipalities are evaluated with the same concentration index > 0,
\* fiscal autonomy 0.2 and 0.5, and different intensities
C25_Witness ==
    /\ pc = "evaluating"
    /\ Len(results) = 2
    /\ SameIndexLowerAutonomy(1, 2)
    /\ results[1].admin.finance_autonomy = Frac(1, 5)
    /\ results[2].admin.finance_autonomy = Frac(1, 2)
    /\ results[1].admin.administrative_intensity
          > results[2].admin.administrative_intensity

\* the cache holds no row for the name
AbsentFromCache(region_name) ==
    \A k \in 1..Len(category_stats.rows) :
        category_stats.rows[k].region_name # region_name

\* the all-zero result: intensity, entropy and entropy score 0, and score 0
\* and count 0 in each of the five categories, returned without an exception
AllZero(r) ==
    /\ r.error = "none"
    /\ r.strategic_intensity = 0
    /\ r.entropy = 0
    /\ r.entropy_score = FZero
    /\ \A c \in Categories : r.scores[c] = 0 /\ r.counts[c] = 0

\* C26: calculate_strategic_intensity called for a region name that is absent
\* from the peer-group cache returns the all-zero result instead of failing,
\* and leaves the cache as it is.
C26_AbsentRegionAllZero ==
    /\ \A i \in 1..Len(results) :
          AbsentFromCache(results[i].name) => AllZero(results[i].strat)
    /\ category_stats.built => CacheAfterCall = category_stats

\* C27: after add_rankings every row carries a non-zero tier rank only in the
\* column of its own tier: a Metropolitan row has municipal rank 0 and a
\* Municipal row has metropolitan rank 0, the two rows of a dual-role region
\* included.
C27_OtherTierRankZero ==
    pc = "ranked" =>
        \A i \in 1..Len(df) :
            /\ df[i].type = METRO_TYPE => (df[i].metro_rank > 0 /\ df[i].basic_rank = 0)
            /\ df[i].type = BASIC_TYPE => (df[i].basic_rank > 0 /\ df[i].metro_rank = 0)

\* the metropolitan names that pass the tests of get_metro_region for a name
PassingParents(basic_region_name) ==
    {m \in metropolitan_areas : ParentCandidate(basic_region_name, m)}

\* C28: parent resolution is deterministic: for every municipal name at most
\* one metropolitan name passes the two-character-prefix test with the
\* South/North disambiguation, so the parent recorded in the linked table is
\* the only value the resolution can return, whatever the order in which the
\* set of metropolitan names is iterated.
C28_ParentDeterministic ==
    pc = "saved" =>
        \A k \in 1..Len(linked_df) :
            /\ Cardinality(PassingParents(linked_df[k].name)) <= 1
            /\ ParentsOf(linked_df[k].name) = {linked_df[k].parent}

\* C29: the peer-statistics cache always agrees with the policy catalog
\* currently loaded: once built it holds the category counts of policy_data,
\* and every call of calculate_strategic_intensity returns what the counts of
\* the most recently loaded catalog give.
C29_CacheAgreesWithCatalog ==
    pc = "loaded" =>
        /\ category_stats.built => category_stats.rows = BuildCategoryStats
        /\ \A region_name \in CallNames : \A ov \in Overrides :
              calculate_strategic_intensity(region_name, ov)
                 = StrategicFrom(BuildCategoryStats, region_name, ov)

\* the three tables beside the catalog are on disk
TablesPresent == files.world.popFile /\ files.world.finFile /\ files.world.budgetFiles

\* C30: run_evaluation over a policy catalog that contains no region ends
\* without raising: evaluate_all_regions returns no rows,
\* calculate_comprehensive_scores and add_rankings return an empty table, and
\* save_results writes no output file.
C30_EmptyCatalogCompletes ==
    (TablesPresent /\ LoadedPolicyData(files.catalog) = <<>>) =>
        /\ error = "none"
        /\ pc # "failed"
        /\ results = <<>>
        /\ df = <<>>
        /\ written = {}

=============================================================================
